---- MODULE Spec2Model ----
(***************************************************************************)
(* Model of the kern-flow-map data pipeline:                               *)
(*   - the reconciliation engine fetchAndProcessDataForAllSources and the  *)
(*     worker's message handler (src/src/data/data.worker.ts);             *)
(*   - the hook module useFlowData: the module-level worker start, the     *)
(*     worker's onmessage/onerror handlers on the main thread and the      *)
(*     polling queryFn (src/unnamed/part_000).                             *)
(*                                                                         *)
(* Text the code inspects character by character (identifiers, labels,     *)
(* table cells, header names) is a sequence of one-character strings;      *)
(* text the code only passes along (error messages) is a TLA+ string.      *)
(* A JavaScript value that may be null/undefined is a record with a tag t. *)
(***************************************************************************)
EXTENDS Integers, Sequences, FiniteSets, TLC

\* ------------------------------------------------------------------------
\* Bounds of the model
\* ------------------------------------------------------------------------
MaxSources == 2
MaxRequests == 2
MaxTokens == 3
MaxCalls == 2
MaxOtherMessages == 2
MaxStoreCalls == 2

\* ------------------------------------------------------------------------
\* JavaScript values
\* ------------------------------------------------------------------------
JSNull == [t |-> "null"]
JSUndefined == [t |-> "undefined"]
JSStr(s) == [t |-> "string", v |-> s]
JSNum(n) == [t |-> "number", v |-> n]
JSArr(l) == [t |-> "array", v |-> l]

\* Truthiness of a cache value: null, undefined and "" are falsy, a
\* non-empty message and every array (also the empty one) are truthy.
Truthy(x) ==
  CASE x.t = "null" -> FALSE
    [] x.t = "undefined" -> FALSE
    [] x.t = "string" -> x.v # ""
    [] x.t = "array" -> TRUE

\* ------------------------------------------------------------------------
\* Text as sequences of characters
\* ------------------------------------------------------------------------
UpperCase == <<"A","B","C","D","E","F","G","H","I","J","K","L","M",
               "N","O","P","Q","R","S","T","U","V","W","X","Y","Z">>
LowerCase == <<"a","b","c","d","e","f","g","h","i","j","k","l","m",
               "n","o","p","q","r","s","t","u","v","w","x","y","z">>
Digits == <<"0","1","2","3","4","5","6","7","8","9">>

IsDigit(c) == \E i \in DOMAIN Digits : Digits[i] = c
DigitValue(c) == (CHOOSE i \in DOMAIN Digits : Digits[i] = c) - 1
IsWhiteSpace(c) == c \in {" ", "\t", "\n"}

\* String.prototype.toLowerCase
toLowerCaseChar(c) ==
  IF \E i \in DOMAIN UpperCase : UpperCase[i] = c
  THEN LowerCase[CHOOSE i \in DOMAIN UpperCase : UpperCase[i] = c]
  ELSE c
toLowerCase(s) == [i \in DOMAIN s |-> toLowerCaseChar(s[i])]

\* String.prototype.includes
includes(s, p) ==
  \E i \in 1..(Len(s) - Len(p) + 1) : SubSeq(s, i, i + Len(p) - 1) = p

\* String.prototype.trim
RECURSIVE trimStart(_)
trimStart(s) ==
  IF s # <<>> /\ IsWhiteSpace(Head(s)) THEN trimStart(Tail(s)) ELSE s
RECURSIVE trimEnd(_)
trimEnd(s) ==
  IF s # <<>> /\ IsWhiteSpace(s[Len(s)])
  THEN trimEnd(SubSeq(s, 1, Len(s) - 1)) ELSE s
trim(s) == trimEnd(trimStart(s))

\* String.prototype.replace with a string pattern: the first occurrence only
replace(s, p, r) ==
  IF includes(s, p)
  THEN LET i == CHOOSE k \in 1..(Len(s) - Len(p) + 1) :
                  /\ SubSeq(s, k, k + Len(p) - 1) = p
                  /\ \A j \in 1..(k - 1) : SubSeq(s, j, j + Len(p) - 1) # p
       IN SubSeq(s, 1, i - 1) \o r \o SubSeq(s, i + Len(p), Len(s))
  ELSE s

\* String(n) for a non-negative integer
RECURSIVE NatToChars(_)
NatToChars(n) ==
  IF n < 10 THEN <<Digits[n + 1]>>
  ELSE NatToChars(n \div 10) \o <<Digits[(n % 10) + 1]>>

\* String(v) for an attribute value
String(v) ==
  CASE v.t = "string" -> v.v
    [] v.t = "number" -> NatToChars(v.v)
    [] v.t = "null" -> <<"n","u","l","l">>
    [] v.t = "undefined" -> <<"u","n","d","e","f","i","n","e","d">>

\* Truthiness of an attribute value: "" and 0 are falsy
TruthyAttr(v) ==
  CASE v.t = "string" -> v.v # <<>>
    [] v.t = "number" -> v.v # 0
    [] v.t = "null" -> FALSE
    [] v.t = "undefined" -> FALSE

\* ------------------------------------------------------------------------
\* Numbers: parseFloat and isNaN
\* A number is finite (sign, mantissa m, e fractional digits: m / 10^e, kept
\* without trailing fractional zeros), infinite, or NaN.
\* ------------------------------------------------------------------------
RECURSIVE Normalise(_, _)
Normalise(m, e) ==
  IF e > 0 /\ m % 10 = 0 THEN Normalise(m \div 10, e - 1) ELSE <<m, e>>

Finite(neg, m, e) ==
  CHOOSE r \in { [k |-> "finite", neg |-> neg /\ n[1] # 0, m |-> n[1],
                  e |-> n[2]] : n \in {Normalise(m, e)} } : TRUE
Infinite(neg) == [k |-> "infinity", neg |-> neg, m |-> 0, e |-> 0]
NaN == [k |-> "nan", neg |-> FALSE, m |-> 0, e |-> 0]
Zero == Finite(FALSE, 0, 0)

isNaN(v) == v.k = "nan"

RECURSIVE DigitPrefix(_)
DigitPrefix(s) ==
  IF s # <<>> /\ IsDigit(Head(s)) THEN <<Head(s)>> \o DigitPrefix(Tail(s))
  ELSE <<>>

RECURSIVE CharsToNat(_)
CharsToNat(ds) ==
  IF ds = <<>> THEN 0
  ELSE 10 * CharsToNat(SubSeq(ds, 1, Len(ds) - 1)) + DigitValue(ds[Len(ds)])

InfinityWord == <<"I","n","f","i","n","i","t","y">>
StartsWith(s, p) == Len(s) >= Len(p) /\ SubSeq(s, 1, Len(p)) = p

\* parseFloat: leading white space is skipped, then the longest prefix that
\* is a decimal literal (sign, Infinity, digits, fraction) is converted; NaN
\* when there is none.  Exponent parts are not modelled: no cell of the
\* model contains one.
\* the number a decimal literal with integer digits ip and fraction digits
\* fp denotes
DecimalValue(neg, ip, fp) ==
  IF ip = <<>> /\ fp = <<>> THEN NaN
  ELSE Finite(neg, CharsToNat(ip \o fp), Len(fp))

\* the fraction digits after the integer digits ip of body
FractionDigits(body, ip) ==
  IF Len(body) > Len(ip) /\ body[Len(ip) + 1] = "."
  THEN DigitPrefix(SubSeq(body, Len(ip) + 2, Len(body)))
  ELSE <<>>

\* parseFloat of a text without leading white space
ParseTrimmed(t) ==
  LET signed == t # <<>> /\ Head(t) \in {"-", "+"}
      neg == t # <<>> /\ Head(t) = "-"
      body == IF signed THEN Tail(t) ELSE t
  IN IF StartsWith(body, InfinityWord) THEN Infinite(neg)
     ELSE CHOOSE r \in
            UNION { { DecimalValue(neg, ip, fp) :
                        fp \in {FractionDigits(body, ip)} } :
                    ip \in {DigitPrefix(body)} }
            : TRUE

parseFloat(s) ==
  CHOOSE r \in { ParseTrimmed(t) : t \in {trimStart(s)} } : TRUE

\* /^\d{4}$/
IsYearKey(key) == Len(key) = 4 /\ \A i \in 1..4 : IsDigit(key[i])

\* ------------------------------------------------------------------------
\* getFeatureType (data.worker.ts 23-48)
\* ------------------------------------------------------------------------
W_point == <<"p","o","i","n","t">>
W_weir == <<"w","e","i","r">>
W_canal == <<"c","a","n","a","l">>
W_river == <<"r","i","v","e","r">>

\* An attribute bag is JSNull or [t |-> "object", v |-> key :> value]
JSObj(f) == [t |-> "object", v |-> f]
EmptyObj == JSObj(<<>>)
GetProp(properties, key) ==
  IF properties.t = "object" /\ key \in DOMAIN properties.v
  THEN properties.v[key] ELSE JSUndefined

\* lines 26-47, on the lower-cased path
ClassifyLower_riverFirst(lowerFilePath, properties) ==
  IF includes(lowerFilePath, W_river) THEN "river"
  ELSE IF includes(lowerFilePath, W_point) \/ includes(lowerFilePath, W_weir)
  THEN "weir"
  ELSE "canal"

ClassifyLower(lowerFilePath, properties) ==
  IF includes(lowerFilePath, W_point) \/ includes(lowerFilePath, W_weir)
  THEN IF /\ TruthyAttr(GetProp(properties, "TYPE"))
          /\ toLowerCase(String(GetProp(properties, "TYPE"))) = W_weir
       THEN "weir"
       ELSE "weir"
  ELSE IF includes(lowerFilePath, W_canal) THEN "canal"
  ELSE IF includes(lowerFilePath, W_river) THEN "river"
  ELSE "canal"

\* line 24 binds lowerFilePath once
getFeatureType(filePath, properties) ==
  CHOOSE type \in { ClassifyLower(lowerFilePath, properties) :
                      lowerFilePath \in {toLowerCase(filePath)} } : TRUE

TypeChars(type) ==
  CASE type = "river" -> W_river
    [] type = "canal" -> W_canal
    [] type = "weir" -> W_weir

\* ------------------------------------------------------------------------
\* The flow table (data.worker.ts 74-88)
\* A parsed row is a function from header names to cells; a field the row
\* does not have is not in its domain.
\* ------------------------------------------------------------------------
K_MapID == <<"M","a","p","I","D">>

MapSet(map, key, value) ==
  [x \in (DOMAIN map) \cup {key} |-> IF x = key THEN value ELSE map[x]]
MapHas(map, key) == key \in DOMAIN map

\* !row.MapID
RowMissingMapID(row) == K_MapID \notin DOMAIN row \/ row[K_MapID] = <<>>

\* lines 80-86: the flows of one row
RowFlows(row) ==
  [key \in {k \in DOMAIN row : IsYearKey(k)} |->
     LET flowVal == parseFloat(row[key])
     IN IF isNaN(flowVal) THEN Zero ELSE flowVal]

\* the forEach callback of lines 75-88
RowCallback_keepMissing(map, row) ==
  MapSet(map, IF RowMissingMapID(row) THEN <<>> ELSE trim(row[K_MapID]),
         RowFlows(row))

RowCallback_firstWins(map, row) ==
  IF RowMissingMapID(row) THEN map
  ELSE IF MapHas(map, trim(row[K_MapID])) THEN map
  ELSE MapSet(map, trim(row[K_MapID]), RowFlows(row))

RowCallback(map, row) ==
  IF RowMissingMapID(row) THEN map
  ELSE MapSet(map, trim(row[K_MapID]), RowFlows(row))

\* parseResult.data.forEach (the map after each row is bound once, as a value)
RECURSIVE BuildFlowDataMap(_, _)
BuildFlowDataMap(map, rows) ==
  IF rows = <<>> THEN map
  ELSE CHOOSE result \in
         { BuildFlowDataMap(next, Tail(rows)) :
             next \in {RowCallback(map, Head(rows))} } : TRUE

\* ------------------------------------------------------------------------
\* The per-feature callback (data.worker.ts 109-174)
\* A raw feature is [properties, geometry]; a geometry is [type, coordinates]
\* with type "null" for a missing geometry.
\* ------------------------------------------------------------------------
mapIdPropertyKeys == <<"MAPID", "MapID", "mapid", "SiteID", "SITEID">>
namePropertyKeys == <<"NAME", "Name", "SiteName", "GNIS_Name">>
Unknown == <<"U","n","k","n","o","w","n">>

\* index of the first key of keys with a truthy value, 0 when there is none
RECURSIVE FirstTruthyKey(_, _, _)
FirstTruthyKey(properties, keys, i) ==
  IF i > Len(keys) THEN 0
  ELSE IF properties.t = "object" /\ TruthyAttr(GetProp(properties, keys[i]))
  THEN i
  ELSE FirstTruthyKey(properties, keys, i + 1)

\* lines 110-117: mapId, undefined when no alias has a truthy value
ResolveMapId_noTrim(properties) ==
  LET i == FirstTruthyKey(properties, mapIdPropertyKeys, 1)
  IN IF i = 0 THEN JSUndefined
     ELSE [t |-> "string", v |-> String(GetProp(properties, mapIdPropertyKeys[i]))]

ResolveMapId(properties) ==
  LET i == FirstTruthyKey(properties, mapIdPropertyKeys, 1)
  IN IF i = 0 THEN JSUndefined
     ELSE [t |-> "string",
           v |-> trim(String(GetProp(properties, mapIdPropertyKeys[i])))]

\* !mapId
MapIdMissing(mapId) == mapId.t = "undefined" \/ mapId.v = <<>>

\* lines 131-138
ResolveName(properties) ==
  LET i == FirstTruthyKey(properties, namePropertyKeys, 1)
  IN IF i = 0 THEN Unknown
     ELSE String(GetProp(properties, namePropertyKeys[i]))

\* line 141: typeOverride || getFeatureType(path, feature.properties || {})
FeatureType_ignoreOverride(typeOverride, path, properties) ==
  getFeatureType(path, IF properties.t = "null" THEN EmptyObj ELSE properties)

FeatureType(typeOverride, path, properties) ==
  IF Truthy(typeOverride) THEN typeOverride.v
  ELSE getFeatureType(path, IF properties.t = "null" THEN EmptyObj ELSE properties)

\* line 144
GeometrySupported_any(geometry) == TRUE

GeometrySupported(geometry) ==
  geometry.type \in {"LineString", "Point", "MultiLineString"}

\* lines 148-159: the geometry pushed, or "skip" for an empty MultiLineString
NormalizeGeometry_passThrough(geometry) == geometry

NormalizeGeometry_lastPart(geometry) ==
  IF geometry.type = "MultiLineString"
  THEN IF Len(geometry.coordinates) > 0
       THEN [type |-> "LineString",
             coordinates |-> geometry.coordinates[Len(geometry.coordinates)]]
       ELSE [type |-> "skip", coordinates |-> <<>>]
  ELSE geometry

NormalizeGeometry(geometry) ==
  IF geometry.type = "MultiLineString"
  THEN IF Len(geometry.coordinates) > 0
       THEN [type |-> "LineString", coordinates |-> geometry.coordinates[1]]
       ELSE [type |-> "skip", coordinates |-> <<>>]
  ELSE geometry

\* line 163
FeatureId_noType(mapId, featureType) == mapId

FeatureId(mapId, featureType) == mapId \o <<"_">> \o TypeChars(featureType)

\* line 168: sectionFlows || {}
SectionFlows(map, mapId) == IF MapHas(map, mapId) THEN map[mapId] ELSE <<>>

\* lines 162-170: the record pushed
FlowFeature(feature, path, typeOverride, map) ==
  LET mapId == ResolveMapId(feature.properties).v
      featureType == FeatureType(typeOverride, path, feature.properties)
  IN [id |-> FeatureId(mapId, featureType),
      geometry |-> NormalizeGeometry(feature.geometry),
      properties |-> [name |-> ResolveName(feature.properties),
                      type |-> featureType,
                      flows |-> SectionFlows(map, mapId)]]

\* allFeatures.push
Push_unshift(all, f) == <<f>> \o all

Push(all, f) == Append(all, f)

\* the callback: allFeatures after one feature
FeatureCallback_skipUnmatched(all, feature, path, typeOverride, map) ==
  IF MapIdMissing(ResolveMapId(feature.properties)) THEN all
  ELSE IF ~MapHas(map, ResolveMapId(feature.properties).v) THEN all
  ELSE IF ~GeometrySupported(feature.geometry) THEN all
  ELSE IF NormalizeGeometry(feature.geometry).type = "skip" THEN all
  ELSE Push(all, FlowFeature(feature, path, typeOverride, map))

FeatureCallback(all, feature, path, typeOverride, map) ==
  IF MapIdMissing(ResolveMapId(feature.properties)) THEN all
  ELSE IF ~GeometrySupported(feature.geometry) THEN all
  ELSE IF NormalizeGeometry(feature.geometry).type = "skip" THEN all
  ELSE Push(all, FlowFeature(feature, path, typeOverride, map))

\* geojson.features.forEach
\* (allFeatures after each feature is bound once, as a value)
RECURSIVE ForEachFeature(_, _, _, _, _)
ForEachFeature(all, features, path, typeOverride, map) ==
  IF features = <<>> THEN all
  ELSE CHOOSE result \in
         { ForEachFeature(next, Tail(features), path, typeOverride, map) :
             next \in {FeatureCallback(all, Head(features), path,
                                       typeOverride, map)} } : TRUE

\* ------------------------------------------------------------------------
\* loadAndProcessData (data.worker.ts 190-198): the worker's fixed inputs
\* ------------------------------------------------------------------------
csvFilePath ==
    <<"/","0","_","K","E","R","N","_","R","I","V","E","R","_","M","A","S",
    "T","E","R","_","D","A","T","A","_","r","e","v","6",".","c","s","v">>
CanalsPath ==
    <<"/","C","a","n","a","l","s","_","K","e","r","n","R","i","v","e","r",
    "_","M","e","r","g","e","d","_","r","e","v","/","C","a","n","a","l","s",
    "_","K","e","r","n","R","i","v","e","r","_","M","e","r","g","e","d","_",
    "r","e","v",".","s","h","p">>
RiverPath ==
    <<"/","N","H","D","S","t","r","e","a","m","R","i","v","e","r","K","e",
    "r","n","R","i","v","e","r","_","r","e","v","/","N","H","D","S","t","r",
    "e","a","m","R","i","v","e","r","K","e","r","n","R","i","v","e","r","_",
    "r","e","v",".","s","h","p">>
PointsPath ==
    <<"/","P","o","i","n","t","s","_","M","e","t","r","o","_","B","a","k",
    "_","C","a","n","a","l","s","_","R","e","v","/","P","o","i","n","t","s",
    "_","M","e","t","r","o","_","B","a","k","_","C","a","n","a","l","s","_",
    "R","e","v",".","s","h","p">>
NoOverride == JSNull
Override(type) == [t |-> "string", v |-> type]

shapefilePathsConfig ==
  << [path |-> CanalsPath, typeOverride |-> NoOverride],
     [path |-> RiverPath, typeOverride |-> Override("river")],
     [path |-> PointsPath, typeOverride |-> Override("weir")] >>

Ext_shp == <<".","s","h","p">>
Ext_dbf == <<".","d","b","f">>

\* ------------------------------------------------------------------------
\* Inputs of the model: what the fetches, the table parser and the
\* shapefile decoder deliver
\* ------------------------------------------------------------------------
\* header names and cells
H_1979 == <<"1","9","7","9">>
H_1980 == <<"1","9","8","0">>
H_Name == <<"N","a","m","e">>
H_19790 == <<"1","9","7","9","0">>

RowA == (K_MapID :> <<"a">>) @@ (H_1979 :> <<"1","0">>)
        @@ (H_1980 :> <<"1","2",".","5">>) @@ (H_Name :> <<"x">>)
RowB == (K_MapID :> <<"1","2">>) @@ (H_1979 :> <<>>)
        @@ (H_1980 :> <<"a","b","c">>)
RowNoId == (H_1979 :> <<"5">>) @@ (H_1980 :> <<"6">>)
RowEmptyId == (K_MapID :> <<>>) @@ (H_1979 :> <<"5">>)
RowASpaced == (K_MapID :> <<" ","a"," ">>) @@ (H_1979 :> <<" ","7","x">>)
              @@ (H_19790 :> <<"3">>)
RowC == (K_MapID :> <<"c">>) @@ (H_1979 :> <<"-",".","5","0">>)
        @@ (H_1980 :> <<"I","n","f","i","n","i","t","y">>)
RowBlankId == (K_MapID :> <<" ">>) @@ (H_1979 :> <<"9">>)
RowUpperA == (K_MapID :> <<"A">>) @@ (H_1979 :> <<"4">>) @@ (H_1980 :> <<"0">>)

\* parse results: rows and the number of errors the parser reports
Tables ==
  { [rows |-> <<RowA, RowB>>, errors |-> 0],
    [rows |-> <<>>, errors |-> 1],
    [rows |-> <<RowNoId, RowA, RowEmptyId, RowASpaced, RowC>>, errors |-> 1],
    [rows |-> <<RowBlankId, RowUpperA>>, errors |-> 0] }

\* what fetching the table does: the fetch throws (msg: the error's
\* message), answers with a non-ok status (msg: the status text), delivers a
\* body that cannot be read (msg: the error's message), or delivers the text
ErrorMessages == {"", "Network failure"}
CsvOutcomes ==
  { [kind |-> "throw", msg |-> m, rows |-> <<>>, errors |-> 0] :
      m \in ErrorMessages }
  \cup { [kind |-> "notok", msg |-> "Not Found", rows |-> <<>>, errors |-> 0] }
  \cup { [kind |-> "textfail", msg |-> "body lost", rows |-> <<>>, errors |-> 0] }
  \cup { [kind |-> "ok", msg |-> "OK", rows |-> tb.rows, errors |-> tb.errors] :
           tb \in Tables }

\* raw features
Geom(type, coordinates) == [type |-> type, coordinates |-> coordinates]
NoGeometry == Geom("null", <<>>)
Line01 == Geom("LineString", << <<0, 0>>, <<1, 1>> >>)
Point2 == Geom("Point", <<2, 2>>)
Multi2 == Geom("MultiLineString",
               << << <<4, 4>>, <<5, 5>> >>, << <<6, 6>>, <<7, 7>> >> >>)
Multi0 == Geom("MultiLineString", <<>>)
Polygon1 == Geom("Polygon", << << <<0, 0>>, <<1, 0>>, <<1, 1>>, <<0, 0>> >> >>)
Line3 == Geom("LineString", << <<3, 3>> >>)
MultiEmptyFirst == Geom("MultiLineString", << <<>>, << <<8, 8>>, <<9, 9>> >> >>)
Raw(properties, geometry) ==
  [properties |-> properties, geometry |-> geometry]

F_a_line == Raw(JSObj(("MapID" :> JSStr(<<"a">>))
                      @@ ("SiteID" :> JSStr(<<"z">>))
                      @@ ("NAME" :> JSStr(<<"A","l","p","h","a">>))), Line01)
F_a_point == Raw(JSObj(("MAPID" :> JSStr(<<" ","a"," ">>))
                       @@ ("TYPE" :> JSStr(<<"W","e","i","r">>))), Point2)
F_c_multi == Raw(JSObj(("mapid" :> JSStr(<<"c">>))
                       @@ ("MapID" :> JSStr(<<>>))), Multi2)
F_noid == Raw(JSObj(("NAME" :> JSStr(<<"x">>))), Line01)
F_blankid == Raw(JSObj(("MAPID" :> JSStr(<<" ">>))
                       @@ ("MapID" :> JSStr(<<"a">>))), Line01)
F_poly == Raw(JSObj(("MapID" :> JSStr(<<"a">>))), Polygon1)
F_multi0 == Raw(JSObj(("MapID" :> JSStr(<<"c">>))), Multi0)
F_num == Raw(JSObj(("MAPID" :> JSNum(0)) @@ ("SiteID" :> JSNum(12))
                   @@ ("SiteName" :> JSStr(<<"S">>))), Point2)
F_nullprops == Raw(JSNull, Line01)
F_nogeom == Raw(JSObj(("SITEID" :> JSStr(<<"z">>))), NoGeometry)
F_short == Raw(JSObj(("MapID" :> JSStr(<<"s">>))), Line3)
F_multi_short == Raw(JSObj(("MapID" :> JSStr(<<"m">>))), MultiEmptyFirst)

\* what fetching and decoding one geometry source does: fail names the step
\* that throws ("fetch": one of the two fetches of lines 98-99; "read": the
\* decoder), features is the decoded collection
FetchFails == [fail |-> "fetch", features |-> <<F_a_line>>]
ReadFails == [fail |-> "read", features |-> <<F_a_line, F_c_multi>>]
Decoded(features) == [fail |-> "none", features |-> features]
ListA == <<F_a_point, F_c_multi>>
ListB == <<F_noid, F_poly, F_a_line, F_blankid>>
ListC == <<F_multi0, F_num, F_nullprops, F_nogeom>>
ListD == <<F_a_line, F_short, F_a_point, F_multi_short>>

TestRiverPath == <<"/","R","i","v","e","r",".","s","h","p">>
TestRiverConfig == [path |-> TestRiverPath, typeOverride |-> NoOverride]

Source(config, payload) == [config |-> config, payload |-> payload]

\* the sources a run is given: the worker's three configs and a test config
\* without override, each with several payloads
SourceChoices ==
  { Source(shapefilePathsConfig[1], pl) :
      pl \in {FetchFails, Decoded(ListA), Decoded(ListB), Decoded(ListD)} }
  \cup { Source(shapefilePathsConfig[2], pl) :
           pl \in {ReadFails, Decoded(<<>>), Decoded(ListA), Decoded(ListC)} }
  \cup { Source(shapefilePathsConfig[3], pl) :
           pl \in {FetchFails, Decoded(ListC)} }
  \cup { Source(TestRiverConfig, pl) : pl \in {ReadFails, Decoded(ListB)} }


\* ------------------------------------------------------------------------
\* State
\* ------------------------------------------------------------------------
VARIABLES
  \* inputs of a run
  csvEnv,            \* what fetching and parsing the table delivers
  shapefileConfigs,  \* the list of [path, typeOverride]
  geoEnv,            \* per config: what fetching and decoding delivers
  \* getFeatureType called on its own
  clsTokens,         \* the pieces the label is made of
  clsProperties,     \* the attribute bag passed
  clsReturned,       \* the values the calls returned, in order
  \* fetchAndProcessDataForAllSources
  epc,               \* position of the async function
  flowDataMap,
  allFeatures,
  srcIdx,            \* index of the config the loop is at
  thrown,            \* message of the error the function rejected with
  \* observations of a run
  fetchLog,          \* the locations fetch was called with, in order
  parseCalls,        \* calls of Papa.parse
  readCalls,         \* calls of shapefile.read
  srcMarks,          \* length of allFeatures after each source
  \* the hook module (part_000)
  mpc,               \* "start" before the module is evaluated, then "loaded"
  workerDefined,     \* typeof Worker !== 'undefined'
  workerDataCache,
  workerErrorCache,
  isLoadingData,
  \* the worker and its two message queues
  workerState,       \* "none", "created", "running", "replied", "failed"
  terminated,        \* worker.terminate() was called
  toWorker,          \* messages posted to the worker, not yet handled
  toMain,            \* events queued for the main thread, not yet handled
  requests,          \* the queryFn invocations
  \* observations of the shim
  workersCreated,
  loadDataPosted,
  runsStarted,
  ignoredMessages,   \* messages other than loadData the worker dropped
  delivered,         \* the events the main thread handled, in order
  \* the store (store.ts) and the browser's location
  selectedYear,
  selectedSectionId,
  locationHash,      \* window.location.hash
  \* URLStateSync
  upc,               \* "unmounted", "mounted", or "crashed" by a thrown effect
  flowFeatures,      \* what useFlowData().data is: undefined until loaded
  isInitialLoad,
  hasAppliedInitialHash,
  rendered,          \* the store values the last render read
  \* observations of the store and of URLStateSync
  initialHash,       \* the key/value pairs the hash at mount was made of
  replaceStateLog,   \* the hashes history.replaceState was called with
  storeCalls,        \* calls of the store's setters by the application
  lastCall           \* the last of those calls

engineVars ==
  <<epc, flowDataMap, allFeatures, srcIdx, thrown, fetchLog, parseCalls,
    readCalls, srcMarks>>
classifierVars == <<clsTokens, clsProperties, clsReturned>>
urlVars ==
  <<selectedYear, selectedSectionId, locationHash, upc, flowFeatures,
    isInitialLoad, hasAppliedInitialHash, rendered, initialHash,
    replaceStateLog, storeCalls, lastCall>>
\* what neither the engine nor the hook module writes
inputVars == <<csvEnv, shapefileConfigs, geoEnv, classifierVars, urlVars>>
shimVars ==
  <<mpc, workerDefined, workerDataCache, workerErrorCache, isLoadingData,
    workerState, terminated, toWorker, toMain, requests, workersCreated,
    loadDataPosted, runsStarted, ignoredMessages, delivered>>
vars == <<inputVars, engineVars, shimVars>>

\* ------------------------------------------------------------------------
\* The store (part_002 724-762)
\* ------------------------------------------------------------------------
MIN_YEAR == 1979
MAX_YEAR == 2021
DEFAULT_YEAR == <<"1","9","9","5">>

\* parseInt(s, 10): leading white space is skipped, then an optional sign and
\* the longest run of digits are converted; NaN when there is no digit
parseInt(s) ==
  LET t == trimStart(s)
      signed == t # <<>> /\ Head(t) \in {"-", "+"}
      neg == t # <<>> /\ Head(t) = "-"
      ds == DigitPrefix(IF signed THEN Tail(t) ELSE t)
  IN IF ds = <<>> THEN NaN ELSE Finite(neg, CharsToNat(ds), 0)

\* !isNaN(numericYear) && numericYear >= MIN_YEAR && numericYear <= MAX_YEAR
InYearRange(year) ==
  LET numericYear == parseInt(year)
  IN /\ ~isNaN(numericYear)
     /\ ~numericYear.neg
     /\ numericYear.m >= MIN_YEAR
     /\ numericYear.m <= MAX_YEAR

\* setSelectedYear (739-748) and setSelectedSectionId (750): the value the
\* field has after the call
setSelectedYear(current, year) == IF InYearRange(year) THEN year ELSE current
setSelectedSectionId(current, id) == id

\* getAvailableYears (754-760)
getAvailableYears ==
  [i \in 1..(MAX_YEAR - MIN_YEAR + 1) |-> NatToChars(MIN_YEAR + i - 1)]

\* ------------------------------------------------------------------------
\* fetchAndProcessDataForAllSources (data.worker.ts 52-187), one action per
\* await
\* ------------------------------------------------------------------------
\* lines 60-61: the error the table fetch ends with, JSNull when it succeeds
CsvFetchError_ignoreStatus(csv) ==
  IF csv.kind = "throw" THEN JSStr(csv.msg) ELSE JSNull

CsvFetchError(csv) ==
  CASE csv.kind = "throw" -> JSStr(csv.msg)
    [] csv.kind = "notok" -> JSStr("Failed to fetch CSV: " \o csv.msg)
    [] OTHER -> JSNull

\* lines 176-178: the catch of one source's try block; allFeatures after it
\* and whether the error leaves the loop
OnSourceError_rethrow(all) == [features |-> all, rethrow |-> TRUE]
OnSourceError_reset(all) == [features |-> <<>>, rethrow |-> FALSE]

OnSourceError(all) == [features |-> all, rethrow |-> FALSE]

\* the head of the for loop at config i (line 94) with allFeatures = all:
\* past the last config the function returns (line 182), otherwise the two
\* fetches of lines 97-100 are issued
LoopAt(i, all) ==
  /\ allFeatures' = all
  /\ srcIdx' = i
  /\ IF i > Len(shapefileConfigs)
     THEN /\ epc' = "resolved"
          /\ fetchLog' = fetchLog
     ELSE /\ epc' = "awaitSource"
          /\ fetchLog' = fetchLog \o
               << shapefileConfigs[i].path,
                  replace(shapefileConfigs[i].path, Ext_shp, Ext_dbf) >>

\* the source at srcIdx is done (its try block ended or its catch ran)
SourceDone(all) ==
  /\ srcMarks' = Append(srcMarks, Len(all))
  /\ LoopAt(srcIdx + 1, all)

SourceFailed ==
  LET r == OnSourceError(allFeatures)
  IN IF r.rethrow
     THEN /\ epc' = "rejected"
          /\ thrown' = JSStr("source error")
          /\ srcMarks' = Append(srcMarks, Len(r.features))
          /\ UNCHANGED <<allFeatures, srcIdx, fetchLog>>
     ELSE /\ SourceDone(r.features)
          /\ UNCHANGED thrown

\* the call: line 60 issues the fetch of the table
EngineCall ==
  /\ epc' = "awaitCsv"
  /\ fetchLog' = Append(fetchLog, csvFilePath)
  /\ UNCHANGED <<flowDataMap, allFeatures, srcIdx, thrown, parseCalls,
                 readCalls, srcMarks>>

\* lines 60-62: the table fetch settles
CsvFetched ==
  /\ epc = "awaitCsv"
  /\ LET e == CsvFetchError(csvEnv)
     IN IF e.t = "string"
        THEN epc' = "rejected" /\ thrown' = e
        ELSE epc' = "awaitText" /\ UNCHANGED thrown
  /\ UNCHANGED <<flowDataMap, allFeatures, srcIdx, fetchLog, parseCalls,
                 readCalls, srcMarks>>
  /\ UNCHANGED <<inputVars, shimVars>>

\* lines 62-94: the body text settles; the table is parsed, the map built
\* and the loop entered
CsvTextRead ==
  /\ epc = "awaitText"
  /\ IF csvEnv.kind = "textfail"
     THEN /\ epc' = "rejected"
          /\ thrown' = JSStr(csvEnv.msg)
          /\ UNCHANGED <<flowDataMap, allFeatures, srcIdx, fetchLog,
                         parseCalls>>
     ELSE /\ parseCalls' = parseCalls + 1
          /\ flowDataMap' = BuildFlowDataMap(<<>>, csvEnv.rows)
          /\ LoopAt(1, <<>>)
          /\ UNCHANGED thrown
  /\ UNCHANGED <<readCalls, srcMarks>>
  /\ UNCHANGED <<inputVars, shimVars>>

\* lines 97-103: both fetches of the source settle; the decoder is called
SourceFetched ==
  /\ epc = "awaitSource"
  /\ IF geoEnv[srcIdx].fail = "fetch"
     THEN SourceFailed /\ UNCHANGED readCalls
     ELSE /\ epc' = "awaitRead"
          /\ readCalls' = readCalls + 1
          /\ UNCHANGED <<allFeatures, srcIdx, thrown, fetchLog, srcMarks>>
  /\ UNCHANGED <<flowDataMap, parseCalls>>
  /\ UNCHANGED <<inputVars, shimVars>>

\* lines 103-175: the decoder settles; every feature is processed
SourceRead ==
  /\ epc = "awaitRead"
  /\ IF geoEnv[srcIdx].fail = "read"
     THEN SourceFailed
     ELSE /\ \E all \in {ForEachFeature(allFeatures, geoEnv[srcIdx].features,
                                        shapefileConfigs[srcIdx].path,
                                        shapefileConfigs[srcIdx].typeOverride,
                                        flowDataMap)} : SourceDone(all)
          /\ UNCHANGED thrown
  /\ UNCHANGED <<flowDataMap, parseCalls, readCalls>>
  /\ UNCHANGED <<inputVars, shimVars>>

\* a direct call of the exported function, as the unit tests make it
DirectCall ==
  /\ epc = "idle"
  /\ EngineCall
  /\ UNCHANGED <<inputVars, shimVars>>

EngineIdle ==
  /\ epc = "idle"
  /\ flowDataMap = <<>>
  /\ allFeatures = <<>>
  /\ srcIdx = 0
  /\ thrown = JSNull
  /\ fetchLog = <<>>
  /\ parseCalls = 0
  /\ readCalls = 0
  /\ srcMarks = <<>>

ShimAbsent ==
  /\ mpc = "start"
  /\ workerDefined = FALSE
  /\ workerDataCache = JSNull
  /\ workerErrorCache = JSNull
  /\ isLoadingData = FALSE
  /\ workerState = "none"
  /\ terminated = FALSE
  /\ toWorker = <<>>
  /\ toMain = <<>>
  /\ requests = <<>>
  /\ workersCreated = 0
  /\ loadDataPosted = 0
  /\ runsStarted = 0
  /\ ignoredMessages = 0
  /\ delivered = <<>>

ClassifierIdle ==
  /\ clsTokens = <<>>
  /\ clsProperties = JSNull
  /\ clsReturned = <<>>

\* the store as created, with no component mounted
StoreCreated ==
  /\ selectedYear = DEFAULT_YEAR
  /\ selectedSectionId = JSNull
  /\ storeCalls = 0
  /\ lastCall = [fn |-> "none", arg |-> JSNull]

UrlIdle ==
  /\ StoreCreated
  /\ locationHash = <<>>
  /\ upc = "unmounted"
  /\ flowFeatures = JSUndefined
  /\ isInitialLoad = TRUE
  /\ hasAppliedInitialHash = FALSE
  /\ rendered = [selectedYear |-> DEFAULT_YEAR, selectedSectionId |-> JSNull]
  /\ initialHash = [prefix |-> <<>>, pairs |-> <<>>]
  /\ replaceStateLog = <<>>

\* the engine alone, called with any table outcome and any list of sources
InitEngine ==
  /\ ClassifierIdle
  /\ UrlIdle
  /\ csvEnv \in CsvOutcomes
  /\ \E n \in 0..MaxSources : \E sources \in [1..n -> SourceChoices] :
       /\ shapefileConfigs = [i \in 1..n |-> sources[i].config]
       /\ geoEnv = [i \in 1..n |-> sources[i].payload]
  /\ EngineIdle
  /\ ShimAbsent

NextEngine ==
  \/ DirectCall
  \/ CsvFetched
  \/ CsvTextRead
  \/ SourceFetched
  \/ SourceRead

SpecEngine == InitEngine /\ [][NextEngine]_vars

\* ------------------------------------------------------------------------
\* The worker's message handler (data.worker.ts 203-214)
\* ------------------------------------------------------------------------
Event(kind, type, payload) == [kind |-> kind, type |-> type, payload |-> payload]

\* self.onmessage: 'loadData' starts loadAndProcessData, any other message is
\* ignored
WorkerOnMessage_answersAll ==
  /\ workerState \in {"created", "running", "replied"}
  /\ ~terminated
  /\ toWorker # <<>>
  /\ toWorker' = Tail(toWorker)
  /\ IF Head(toWorker) = "loadData"
     THEN /\ workerState = "created"
          /\ epc = "idle"
          /\ EngineCall
          /\ workerState' = "running"
          /\ runsStarted' = runsStarted + 1
          /\ UNCHANGED <<ignoredMessages, toMain>>
     ELSE /\ ignoredMessages' = ignoredMessages + 1
          /\ toMain' = Append(toMain,
               Event("message", "dataError", JSStr("Unknown message")))
          /\ UNCHANGED <<engineVars, workerState, runsStarted>>
  /\ UNCHANGED <<inputVars, mpc, workerDefined, workerDataCache,
                 workerErrorCache, isLoadingData, terminated, requests,
                 workersCreated, loadDataPosted, delivered>>

WorkerOnMessage ==
  /\ workerState \in {"created", "running", "replied"}
  /\ ~terminated
  /\ toWorker # <<>>
  /\ toWorker' = Tail(toWorker)
  /\ IF Head(toWorker) = "loadData"
     THEN /\ workerState = "created"
          /\ epc = "idle"
          /\ EngineCall
          /\ workerState' = "running"
          /\ runsStarted' = runsStarted + 1
          /\ UNCHANGED ignoredMessages
     ELSE /\ ignoredMessages' = ignoredMessages + 1
          /\ UNCHANGED <<engineVars, workerState, runsStarted>>
  /\ UNCHANGED <<inputVars, mpc, workerDefined, workerDataCache,
                 workerErrorCache, isLoadingData, terminated, toMain, requests,
                 workersCreated, loadDataPosted, delivered>>

\* lines 207-211: the awaited run settled; its outcome is posted
WorkerReply ==
  /\ workerState = "running"
  /\ ~terminated
  /\ epc \in {"resolved", "rejected"}
  /\ toMain' = Append(toMain,
       IF epc = "resolved"
       THEN Event("message", "dataLoaded", JSArr(allFeatures))
       ELSE Event("message", "dataError", thrown))
  /\ workerState' = "replied"
  /\ UNCHANGED <<inputVars, engineVars, mpc, workerDefined, workerDataCache,
                 workerErrorCache, isLoadingData, terminated, toWorker,
                 requests, workersCreated, loadDataPosted, runsStarted,
                 ignoredMessages,
                 delivered>>

\* the worker script cannot be loaded or evaluated: an error event is fired at
\* the Worker object, with or without a message, and no handler ever runs
ScriptErrorMessages == {JSUndefined, JSStr("Script error.")}
WorkerFailsToLoad ==
  /\ workerState = "created"
  /\ ~terminated
  /\ \E m \in ScriptErrorMessages :
       toMain' = Append(toMain, Event("error", "error", m))
  /\ workerState' = "failed"
  /\ UNCHANGED <<inputVars, engineVars, mpc, workerDefined, workerDataCache,
                 workerErrorCache, isLoadingData, terminated, toWorker,
                 requests, workersCreated, loadDataPosted, runsStarted,
                 ignoredMessages,
                 delivered>>

\* ------------------------------------------------------------------------
\* The hook module (part_000)
\* ------------------------------------------------------------------------
NoWorkersMessage == "Web Workers are not supported."
FailedToLoadMessage == "Failed to load data from worker."

\* lines 12-46, the block the module runs when it is evaluated
StartBlock ==
  /\ mpc' = "loaded"
  /\ IF workerDefined /\ ~Truthy(workerDataCache) /\ ~isLoadingData
     THEN /\ isLoadingData' = TRUE
          /\ workersCreated' = workersCreated + 1
          /\ workerState' = "created"
          /\ terminated' = FALSE
          /\ toWorker' = Append(toWorker, "loadData")
          /\ loadDataPosted' = loadDataPosted + 1
          /\ UNCHANGED workerErrorCache
     ELSE /\ IF ~workerDefined
             THEN workerErrorCache' = JSStr(NoWorkersMessage)
             ELSE UNCHANGED workerErrorCache
          /\ UNCHANGED <<isLoadingData, workersCreated, workerState,
                         terminated, toWorker, loadDataPosted>>
  /\ UNCHANGED <<inputVars, engineVars, workerDefined, workerDataCache, toMain,
                 requests, runsStarted, ignoredMessages, delivered>>

\* the block run again whenever the hook is used
ModuleInit_onEveryUse == StartBlock

\* a module is evaluated once, when it is first imported
ModuleInit ==
  /\ mpc = "start"
  /\ StartBlock

\* worker.onmessage (lines 17-30)
OnMessage_noTerminate ==
  /\ toMain # <<>>
  /\ Head(toMain).kind = "message"
  /\ LET event == Head(toMain)
     IN /\ IF event.type = "dataLoaded"
           THEN /\ workerDataCache' = event.payload
                /\ workerErrorCache' = JSNull
           ELSE IF event.type = "dataError"
           THEN /\ workerErrorCache' = event.payload
                /\ workerDataCache' = JSNull
           ELSE UNCHANGED <<workerDataCache, workerErrorCache>>
        /\ delivered' = Append(delivered, event)
  /\ isLoadingData' = FALSE
  /\ toMain' = Tail(toMain)
  /\ UNCHANGED <<inputVars, engineVars, mpc, workerDefined, workerState,
                 terminated, toWorker, requests, workersCreated,
                 loadDataPosted, runsStarted, ignoredMessages>>

OnMessage ==
  /\ toMain # <<>>
  /\ Head(toMain).kind = "message"
  /\ LET event == Head(toMain)
     IN /\ IF event.type = "dataLoaded"
           THEN /\ workerDataCache' = event.payload
                /\ workerErrorCache' = JSNull
           ELSE IF event.type = "dataError"
           THEN /\ workerErrorCache' = event.payload
                /\ workerDataCache' = JSNull
           ELSE UNCHANGED <<workerDataCache, workerErrorCache>>
        /\ delivered' = Append(delivered, event)
  /\ isLoadingData' = FALSE
  /\ terminated' = TRUE
  /\ toMain' = Tail(toMain)
  /\ UNCHANGED <<inputVars, engineVars, mpc, workerDefined, workerState,
                 toWorker, requests, workersCreated, loadDataPosted,
                 runsStarted,
                 ignoredMessages>>

\* worker.onerror (lines 32-39)
OnError ==
  /\ toMain # <<>>
  /\ Head(toMain).kind = "error"
  /\ workerErrorCache' = Head(toMain).payload
  /\ workerDataCache' = JSNull
  /\ isLoadingData' = FALSE
  /\ terminated' = TRUE
  /\ delivered' = Append(delivered, Head(toMain))
  /\ toMain' = Tail(toMain)
  /\ UNCHANGED <<inputVars, engineVars, mpc, workerDefined, workerState,
                 toWorker, requests, workersCreated, loadDataPosted,
                 runsStarted,
                 ignoredMessages>>

\* what a promise is settled with, or that it stays pending
Resolve(data) == [status |-> "resolved", value |-> data]
Reject(message) == [status |-> "rejected", value |-> JSStr(message)]
Wait == [status |-> "pending", value |-> JSNull]

\* checkData (lines 56-70)
checkData_placeholder(errorCache, dataCache, loading) ==
  IF Truthy(errorCache) THEN Reject(errorCache.v)
  ELSE IF Truthy(dataCache) THEN Resolve(dataCache)
  ELSE Resolve(JSArr(<<>>))

checkData_neverGivesUp(errorCache, dataCache, loading) ==
  IF Truthy(errorCache) THEN Reject(errorCache.v)
  ELSE IF Truthy(dataCache) THEN Resolve(dataCache)
  ELSE Wait

checkData(errorCache, dataCache, loading) ==
  IF Truthy(errorCache) THEN Reject(errorCache.v)
  ELSE IF Truthy(dataCache) THEN Resolve(dataCache)
  ELSE IF ~loading /\ ~Truthy(dataCache) /\ ~Truthy(errorCache)
  THEN Reject(FailedToLoadMessage)
  ELSE Wait

\* queryFn (lines 52-73): the two early exits, then the first checkData
queryFn(errorCache, dataCache, loading) ==
  IF Truthy(errorCache) THEN Reject(errorCache.v)
  ELSE IF Truthy(dataCache) THEN Resolve(dataCache)
  ELSE checkData(errorCache, dataCache, loading)

Settle(r, outcome, inFlight) ==
  requests' = [requests EXCEPT ![r] =
                 [status |-> outcome.status, value |-> outcome.value,
                  inFlight |-> inFlight]]

\* a consumer's query runs queryFn
QueryFn(r) ==
  /\ mpc = "loaded"
  /\ requests[r].status = "none"
  /\ Settle(r, queryFn(workerErrorCache, workerDataCache, isLoadingData),
            isLoadingData)
  /\ UNCHANGED <<inputVars, engineVars, mpc, workerDefined, workerDataCache,
                 workerErrorCache, isLoadingData, workerState, terminated,
                 toWorker, toMain, workersCreated, loadDataPosted, runsStarted,
                 ignoredMessages,
                 delivered>>

\* a poll that gives up while the run is still in flight
CheckData_givesUp(r) ==
  /\ requests[r].status = "pending"
  /\ Settle(r, IF isLoadingData THEN Reject("timeout")
               ELSE checkData(workerErrorCache, workerDataCache, isLoadingData),
            requests[r].inFlight)
  /\ UNCHANGED <<inputVars, engineVars, mpc, workerDefined, workerDataCache,
                 workerErrorCache, isLoadingData, workerState, terminated,
                 toWorker, toMain, workersCreated, loadDataPosted, runsStarted,
                 ignoredMessages,
                 delivered>>

\* the timer of line 69 fires: checkData runs again
CheckData(r) ==
  /\ requests[r].status = "pending"
  /\ Settle(r, checkData(workerErrorCache, workerDataCache, isLoadingData),
            requests[r].inFlight)
  /\ UNCHANGED <<inputVars, engineVars, mpc, workerDefined, workerDataCache,
                 workerErrorCache, isLoadingData, workerState, terminated,
                 toWorker, toMain, workersCreated, loadDataPosted, runsStarted,
                 ignoredMessages,
                 delivered>>

\* the application: the worker runs loadAndProcessData with its fixed
\* configs, the consumers issue up to MaxRequests queries
ShimTables == { [rows |-> <<RowA, RowASpaced>>, errors |-> 0] }
ShimCsvOutcomes ==
  { [kind |-> "throw", msg |-> m, rows |-> <<>>, errors |-> 0] :
      m \in ErrorMessages }
  \cup { [kind |-> "notok", msg |-> "Not Found", rows |-> <<>>, errors |-> 0] }
  \cup { [kind |-> "ok", msg |-> "OK", rows |-> tb.rows, errors |-> tb.errors] :
           tb \in ShimTables }
ShimGeoEnvs ==
  { <<Decoded(ListA), ReadFails, Decoded(ListC)>>,
    <<FetchFails, ReadFails, FetchFails>> }

InitShim ==
  /\ ClassifierIdle
  /\ UrlIdle
  /\ csvEnv \in ShimCsvOutcomes
  /\ shapefileConfigs = shapefilePathsConfig
  /\ geoEnv \in ShimGeoEnvs
  /\ EngineIdle
  /\ mpc = "start"
  /\ workerDefined \in BOOLEAN
  /\ workerDataCache = JSNull
  /\ workerErrorCache = JSNull
  /\ isLoadingData = FALSE
  /\ workerState = "none"
  /\ terminated = FALSE
  /\ toWorker = <<>>
  /\ toMain = <<>>
  /\ requests = [r \in 1..MaxRequests |->
                   [status |-> "none", value |-> JSNull, inFlight |-> FALSE]]
  /\ workersCreated = 0
  /\ loadDataPosted = 0
  /\ runsStarted = 0
  /\ ignoredMessages = 0
  /\ delivered = <<>>

NextShim ==
  \/ ModuleInit
  \/ WorkerOnMessage
  \/ WorkerFailsToLoad
  \/ CsvFetched
  \/ CsvTextRead
  \/ SourceFetched
  \/ SourceRead
  \/ WorkerReply
  \/ OnMessage
  \/ OnError
  \/ \E r \in 1..MaxRequests : QueryFn(r)
  \/ \E r \in 1..MaxRequests : CheckData(r)

SpecShim == InitShim /\ [][NextShim]_vars

\* the same application when the module is evaluated, the worker's fetches
\* and reads come back, posted events are dispatched and the 100 ms timers of
\* line 69 fire; nothing obliges a consumer to issue a request
Progress ==
  \/ ModuleInit
  \/ WorkerOnMessage
  \/ CsvFetched
  \/ CsvTextRead
  \/ SourceFetched
  \/ SourceRead
  \/ WorkerReply
  \/ OnMessage
  \/ OnError

SpecShimFair ==
  /\ SpecShim
  /\ WF_vars(Progress)
  /\ \A r \in 1..MaxRequests : WF_vars(CheckData(r))

\* the application with a sender of messages other than 'loadData': the
\* worker's handler receives them like any message
OtherMessages == {"ping", "LOADDATA"}
PostOther ==
  /\ workerState \in {"created", "running", "replied"}
  /\ ~terminated
  /\ ignoredMessages + Len(SelectSeq(toWorker, LAMBDA m : m # "loadData"))
       < MaxOtherMessages
  /\ \E m \in OtherMessages : toWorker' = Append(toWorker, m)
  /\ UNCHANGED <<inputVars, engineVars, mpc, workerDefined, workerDataCache,
                 workerErrorCache, isLoadingData, workerState, terminated,
                 toMain, requests, workersCreated, loadDataPosted, runsStarted,
                 ignoredMessages,
                 delivered>>

NextWorker == NextShim \/ PostOther

SpecWorker == InitShim /\ [][NextWorker]_vars

\* ------------------------------------------------------------------------
\* getFeatureType called on its own (data.worker.ts 23-48), with labels made
\* of up to MaxTokens pieces and several attribute bags
\* ------------------------------------------------------------------------
T_Point == <<"P","o","i","n","t">>
T_WEIR == <<"W","E","I","R">>
T_Canals == <<"C","a","n","a","L","s">>
T_RIVER == <<"R","I","V","E","R">>
T_data == <<"d","a","t","a","_">>
Tokens == {T_Point, T_WEIR, T_Canals, T_RIVER, T_data}

RECURSIVE Label(_)
Label(tokens) ==
  IF tokens = <<>> THEN <<>> ELSE Head(tokens) \o Label(Tail(tokens))

PropertiesPool ==
  { JSNull, EmptyObj,
    JSObj(("TYPE" :> JSStr(<<"w","e","i","r">>))),
    JSObj(("TYPE" :> JSStr(<<"R","i","v","e","r">>))),
    JSObj(("TYPE" :> JSNum(0))),
    JSObj(("TYPE" :> JSNull) @@ ("NAME" :> JSStr(<<"c","a","n","a","l">>))) }

InitClassifier ==
  /\ \E n \in 0..MaxTokens : clsTokens \in [1..n -> Tokens]
  /\ clsProperties \in PropertiesPool
  /\ clsReturned = <<>>
  /\ csvEnv = [kind |-> "ok", msg |-> "OK", rows |-> <<>>, errors |-> 0]
  /\ shapefileConfigs = <<>>
  /\ geoEnv = <<>>
  /\ EngineIdle
  /\ ShimAbsent
  /\ UrlIdle

\* one call of getFeatureType(label, properties)
Classify ==
  /\ Len(clsReturned) < MaxCalls
  /\ clsReturned' =
       Append(clsReturned, getFeatureType(Label(clsTokens), clsProperties))
  /\ UNCHANGED <<clsTokens, clsProperties, csvEnv, shapefileConfigs, geoEnv,
                 urlVars, engineVars, shimVars>>

NextClassifier == Classify

SpecClassifier == InitClassifier /\ [][NextClassifier]_vars

\* ------------------------------------------------------------------------
\* URLStateSync (routing/URLStateSync.tsx 5-99)
\* ------------------------------------------------------------------------
K_year == <<"y","e","a","r">>
K_section == <<"s","e","c","t","i","o","n">>
HashMark == <<"#">>
HashSlash == <<"#","/">>

\* String.prototype.split and Array.prototype.join with a one-character
\* separator
RECURSIVE SplitFrom(_, _, _)
SplitFrom(s, sep, cur) ==
  IF s = <<>> THEN <<cur>>
  ELSE IF Head(s) = sep THEN <<cur>> \o SplitFrom(Tail(s), sep, <<>>)
  ELSE SplitFrom(Tail(s), sep, Append(cur, Head(s)))
split(s, sep) == SplitFrom(s, sep, <<>>)

RECURSIVE join(_, _)
join(parts, sep) ==
  IF parts = <<>> THEN <<>>
  ELSE IF Len(parts) = 1 THEN parts[1]
  ELSE parts[1] \o <<sep>> \o join(Tail(parts), sep)

\* the characters of the model's texts that encodeURIComponent escapes, with
\* their escape codes; letters, digits and "_" stand for themselves
PercentCodes ==
  << [char |-> " ", code |-> <<"2","0">>],
     [char |-> "/", code |-> <<"2","F">>],
     [char |-> "#", code |-> <<"2","3">>],
     [char |-> "%", code |-> <<"2","5">>] >>
IsEscaped(c) == \E i \in DOMAIN PercentCodes : PercentCodes[i].char = c
CodeOf(c) ==
  PercentCodes[CHOOSE i \in DOMAIN PercentCodes : PercentCodes[i].char = c].code
IsCode(code) == \E i \in DOMAIN PercentCodes : PercentCodes[i].code = code
CharOf(code) ==
  PercentCodes[CHOOSE i \in DOMAIN PercentCodes : PercentCodes[i].code = code].char

RECURSIVE encodeURIComponent(_)
encodeURIComponent(s) ==
  IF s = <<>> THEN <<>>
  ELSE (IF IsEscaped(Head(s)) THEN <<"%">> \o CodeOf(Head(s)) ELSE <<Head(s)>>)
         \o encodeURIComponent(Tail(s))

\* decodeURIComponent: the decoded text, or a URIError thrown at a "%" that
\* no escape code follows
RECURSIVE DecodeFrom(_, _)
DecodeFrom(s, done) ==
  IF s = <<>> THEN [ok |-> TRUE, v |-> done]
  ELSE IF Head(s) # "%" THEN DecodeFrom(Tail(s), Append(done, Head(s)))
  ELSE IF Len(s) >= 3 /\ IsCode(SubSeq(s, 2, 3))
  THEN DecodeFrom(SubSeq(s, 4, Len(s)), Append(done, CharOf(SubSeq(s, 2, 3))))
  ELSE [ok |-> FALSE, v |-> <<>>]
decodeURIComponent(s) == DecodeFrom(s, <<>>)

\* lines 25-33: the hash that stands for the store's values
NewHash(year, sectionId) ==
  LET hashParts ==
        (IF TruthyAttr(sectionId)
         THEN << K_section \o <<"/">> \o encodeURIComponent(sectionId.v) >>
         ELSE <<>>)
        \o (IF year # <<>> THEN << K_year \o <<"/">> \o year >> ELSE <<>>)
  IN IF Len(hashParts) > 0 THEN HashSlash \o join(hashParts, "/")
     ELSE HashMark

\* window.location.hash after history.replaceState(null, '', newHash): an
\* empty fragment reads as ''
HashAfterReplace(newHash) == IF newHash = HashMark THEN <<>> ELSE newHash

\* lines 36-39: replaceState unless the location already shows newHash; c
\* holds the two refs, the location's hash, the log of replaceState calls and
\* the store's two values
WriteHash(c, newHash) ==
  IF c.hash # newHash /\ ~(c.hash = <<>> /\ newHash = HashMark)
  THEN [c EXCEPT !.hash = HashAfterReplace(newHash),
                 !.log = Append(@, newHash)]
  ELSE c

\* the first effect (16-40), run with the values its render read
StoreToHashEffect_ignoresApplied(c, year, sectionId) ==
  IF c.isInitialLoad THEN c
  ELSE WriteHash(c, NewHash(year, sectionId))

StoreToHashEffect(c, year, sectionId) ==
  IF c.isInitialLoad \/ c.hasAppliedInitialHash
  THEN [c EXCEPT !.hasAppliedInitialHash = FALSE]
  ELSE WriteHash(c, NewHash(year, sectionId))

\* lines 59-60
HashYearValid(value) == InYearRange(value)

\* the loop of lines 54-73 from the part at index i on; an absent or empty
\* part gives the value null, a part that cannot be decoded throws
RECURSIVE ParseParts(_, _, _)
ParseParts(parts, i, acc) ==
  IF i > Len(parts) \/ acc.threw THEN acc
  ELSE LET key == parts[i]
           raw == IF i + 1 <= Len(parts) THEN parts[i + 1] ELSE <<>>
           dec == IF raw # <<>> THEN decodeURIComponent(raw)
                  ELSE [ok |-> TRUE, v |-> <<>>]
           value == dec.v
       IN IF ~dec.ok THEN [acc EXCEPT !.threw = TRUE]
          ELSE IF key = K_year /\ value # <<>>
          THEN ParseParts(parts, i + 2,
                 IF HashYearValid(value)
                 THEN [acc EXCEPT !.yearFromHash = JSStr(value)] ELSE acc)
          ELSE IF key = K_section /\ value # <<>>
          THEN ParseParts(parts, i + 2,
                 [acc EXCEPT !.sectionIdFromHash = JSStr(value)])
          ELSE ParseParts(parts, i + 2, acc)

\* flowFeatures.some(f => f.id === id)
SomeFeatureHasId(features, id) ==
  \E k \in DOMAIN features.v : features.v[k].id = id

\* lines 75-92: what was found is handed to the store
ApplyFound(c, found, year, sectionId, features) ==
  [c EXCEPT
     !.hasAppliedInitialHash = TRUE,
     !.selectedYear =
        IF TruthyAttr(found.yearFromHash) /\ found.yearFromHash.v # year
        THEN setSelectedYear(@, found.yearFromHash.v) ELSE @,
     !.selectedSectionId =
        IF TruthyAttr(found.sectionIdFromHash)
           /\ found.sectionIdFromHash # sectionId
        THEN IF Truthy(features)
                /\ ~SomeFeatureHasId(features, found.sectionIdFromHash.v)
             THEN @
             ELSE setSelectedSectionId(@, found.sectionIdFromHash)
        ELSE @]

\* the second effect (43-95)
HashParseEffect(c, year, sectionId, features) ==
  IF ~c.isInitialLoad THEN c
  ELSE IF StartsWith(c.hash, HashSlash)
  THEN CHOOSE r \in
         { IF found.threw THEN [c EXCEPT !.threw = TRUE]
           ELSE IF TruthyAttr(found.yearFromHash)
                   \/ TruthyAttr(found.sectionIdFromHash)
           THEN [ApplyFound(c, found, year, sectionId, features)
                   EXCEPT !.isInitialLoad = FALSE]
           ELSE [c EXCEPT !.isInitialLoad = FALSE] :
           found \in
             { ParseParts(split(SubSeq(c.hash, 3, Len(c.hash)), "/"), 1,
                          [yearFromHash |-> JSNull,
                           sectionIdFromHash |-> JSNull,
                           threw |-> FALSE]) } } : TRUE
  ELSE [c EXCEPT !.isInitialLoad = FALSE]

\* the effects React runs after a commit, in the order of their declaration:
\* both on mount, those whose dependencies changed afterwards
Commit(c, year, sectionId, features, storeChanged) ==
  HashParseEffect(
    IF storeChanged THEN StoreToHashEffect(c, year, sectionId) ELSE c,
    year, sectionId, features)

Component ==
  [isInitialLoad |-> isInitialLoad,
   hasAppliedInitialHash |-> hasAppliedInitialHash,
   hash |-> locationHash,
   log |-> replaceStateLog,
   selectedYear |-> selectedYear,
   selectedSectionId |-> selectedSectionId,
   threw |-> FALSE]

Committed(c) ==
  /\ isInitialLoad' = c.isInitialLoad
  /\ hasAppliedInitialHash' = c.hasAppliedInitialHash
  /\ locationHash' = c.hash
  /\ replaceStateLog' = c.log
  /\ selectedYear' = c.selectedYear
  /\ selectedSectionId' = c.selectedSectionId
  /\ upc' = IF c.threw THEN "crashed" ELSE "mounted"

StoreValues ==
  [selectedYear |-> selectedYear, selectedSectionId |-> selectedSectionId]

otherThanUrl ==
  <<csvEnv, shapefileConfigs, geoEnv, classifierVars, engineVars, shimVars>>

\* the component is mounted: first render, then both effects
Mount ==
  /\ upc = "unmounted"
  /\ rendered' = StoreValues
  /\ \E c \in { Commit(Component, selectedYear, selectedSectionId,
                        flowFeatures, TRUE) } : Committed(c)
  /\ UNCHANGED <<flowFeatures, initialHash, storeCalls, lastCall,
                 otherThanUrl>>

\* the store changed since the last render: the component renders again and
\* the effects whose dependencies changed run
Render ==
  /\ upc = "mounted"
  /\ rendered # StoreValues
  /\ rendered' = StoreValues
  /\ \E c \in { Commit(Component, selectedYear, selectedSectionId,
                        flowFeatures, TRUE) } : Committed(c)
  /\ UNCHANGED <<flowFeatures, initialHash, storeCalls, lastCall,
                 otherThanUrl>>

\* useFlowData delivers the list: a render in which only the second effect's
\* dependencies changed
Feature(id) == [id |-> id]
S_1 == <<"s","1">>
S_sp == <<"s"," ","1">>
S_zz == <<"z","z">>
LoadedFeatures == JSArr(<<Feature(S_1), Feature(S_sp)>>)
FeaturesLoaded ==
  /\ upc = "mounted"
  /\ rendered = StoreValues
  /\ flowFeatures = JSUndefined
  /\ flowFeatures' = LoadedFeatures
  /\ \E c \in { Commit(Component, selectedYear, selectedSectionId,
                        LoadedFeatures, FALSE) } : Committed(c)
  /\ UNCHANGED <<rendered, initialHash, storeCalls, lastCall, otherThanUrl>>

\* the application calls the store's setters (TimeBar, MapPane), at most
\* MaxStoreCalls times, between renders
Y_2001 == <<"2","0","0","1">>
Y_1969 == <<"1","9","6","9">>
Y_2022 == <<"2","0","2","2">>
Y_abc == <<"a","b","c">>
Y_1999x == <<"1","9","9","9","x">>
YearArguments == {Y_2001, DEFAULT_YEAR, Y_1969, Y_abc, Y_1999x, <<>>}
SectionArguments == {JSNull, JSStr(S_1), JSStr(S_sp)}

SetSelectedYear(year) ==
  /\ upc = "mounted"
  /\ rendered = StoreValues
  /\ storeCalls < MaxStoreCalls
  /\ selectedYear' = setSelectedYear(selectedYear, year)
  /\ storeCalls' = storeCalls + 1
  /\ lastCall' = [fn |-> "setSelectedYear", arg |-> JSStr(year)]
  /\ UNCHANGED <<selectedSectionId, locationHash, upc, flowFeatures,
                 isInitialLoad, hasAppliedInitialHash, rendered, initialHash,
                 replaceStateLog, otherThanUrl>>

SetSelectedSectionId(id) ==
  /\ upc = "mounted"
  /\ rendered = StoreValues
  /\ storeCalls < MaxStoreCalls
  /\ selectedSectionId' = setSelectedSectionId(selectedSectionId, id)
  /\ storeCalls' = storeCalls + 1
  /\ lastCall' = [fn |-> "setSelectedSectionId", arg |-> id]
  /\ UNCHANGED <<selectedYear, locationHash, upc, flowFeatures,
                 isInitialLoad, hasAppliedInitialHash, rendered, initialHash,
                 replaceStateLog, otherThanUrl>>

\* the hashes the page is opened with: none, a bare "#", or "#/" and pairs
\* of a key and a value, the value escaped, empty, absent, or badly escaped
Pair(key, value) ==
  [key |-> key, value |-> JSStr(value),
   text |-> JSStr(encodeURIComponent(value))]
NoValue(key) == [key |-> key, value |-> JSNull, text |-> JSUndefined]
BadEscape(key) == [key |-> key, value |-> JSNull, text |-> JSStr(<<"%">>)]
PairLists ==
  { <<Pair(K_year, Y_2001)>>,
    <<Pair(K_year, DEFAULT_YEAR)>>,
    <<Pair(K_year, Y_1969)>>,
    <<Pair(K_year, Y_2022)>>,
    <<Pair(K_year, Y_abc)>>,
    <<Pair(K_year, Y_1999x)>>,
    <<Pair(K_year, <<>>)>>,
    <<NoValue(K_year)>>,
    <<Pair(K_section, S_1)>>,
    <<Pair(K_section, S_sp)>>,
    <<Pair(K_section, S_zz)>>,
    <<Pair(K_section, <<>>)>>,
    <<NoValue(K_section)>>,
    <<BadEscape(K_section)>>,
    <<Pair(K_year, Y_2001), Pair(K_section, S_1)>>,
    <<Pair(K_section, S_sp), Pair(K_year, Y_2001)>>,
    <<Pair(K_year, Y_1969), Pair(K_section, S_1)>>,
    <<Pair(K_year, Y_2001), Pair(K_section, S_zz)>>,
    <<Pair(K_section, <<>>), Pair(K_year, Y_2001)>>,
    <<Pair(K_section, S_zz), Pair(K_year, Y_abc)>>,
    <<Pair(K_section, S_1), NoValue(K_year)>> }
InitialHashes ==
  { [prefix |-> <<>>, pairs |-> <<>>], [prefix |-> HashMark, pairs |-> <<>>] }
  \cup { [prefix |-> HashSlash, pairs |-> l] : l \in PairLists }

RECURSIVE PairsText(_)
PairsText(pairs) ==
  IF pairs = <<>> THEN <<>>
  ELSE LET p == Head(pairs)
           own == IF p.text = JSUndefined THEN p.key
                  ELSE p.key \o <<"/">> \o p.text.v
       IN IF Len(pairs) = 1 THEN own
          ELSE own \o <<"/">> \o PairsText(Tail(pairs))
HashText(h) ==
  IF h.prefix = HashSlash THEN HashSlash \o PairsText(h.pairs) ELSE h.prefix

InitUrl ==
  /\ ClassifierIdle
  /\ csvEnv = [kind |-> "ok", msg |-> "OK", rows |-> <<>>, errors |-> 0]
  /\ shapefileConfigs = <<>>
  /\ geoEnv = <<>>
  /\ EngineIdle
  /\ ShimAbsent
  /\ StoreCreated
  /\ initialHash \in InitialHashes
  /\ locationHash = HashText(initialHash)
  /\ upc = "unmounted"
  /\ flowFeatures \in {JSUndefined, LoadedFeatures}
  /\ isInitialLoad = TRUE
  /\ hasAppliedInitialHash = FALSE
  /\ rendered = StoreValues
  /\ replaceStateLog = <<>>

NextUrl ==
  \/ Mount
  \/ Render
  \/ FeaturesLoaded
  \/ \E year \in YearArguments : SetSelectedYear(year)
  \/ \E id \in SectionArguments : SetSelectedSectionId(id)

SpecUrl == InitUrl /\ [][NextUrl]_vars

\* ------------------------------------------------------------------------
\* Properties of the reconciliation engine (SpecEngine)
\* ------------------------------------------------------------------------
SourceFails(i) == geoEnv[i].fail # "none"

\* the part of allFeatures that source i added
Contribution(i) ==
  SubSeq(allFeatures, (IF i = 1 THEN 0 ELSE srcMarks[i - 1]) + 1, srcMarks[i])

\* what source i adds when it is the only source and nothing fails
Alone(i) ==
  ForEachFeature(<<>>, geoEnv[i].features, shapefileConfigs[i].path,
                 shapefileConfigs[i].typeOverride, flowDataMap)

\* a raw feature for which a FlowFeature is produced
Emitted(f) ==
  /\ ~MapIdMissing(ResolveMapId(f.properties))
  /\ f.geometry.type \in {"Point", "LineString", "MultiLineString"}
  /\ f.geometry.type = "MultiLineString" => f.geometry.coordinates # <<>>

Kept(i) == IF SourceFails(i) THEN <<>> ELSE SelectSeq(geoEnv[i].features, Emitted)

\* the raw features behind the output, in source-then-feature order
RECURSIVE Provenance(_)
Provenance(n) ==
  IF n = 0 THEN <<>>
  ELSE Provenance(n - 1) \o
       [j \in 1..Len(Kept(n)) |-> [src |-> n, feature |-> Kept(n)[j]]]

ExpectedOutput ==
  CHOOSE out \in
    UNION { { [k \in 1..Len(prov) |->
                 FlowFeature(prov[k].feature,
                             shapefileConfigs[prov[k].src].path,
                             shapefileConfigs[prov[k].src].typeOverride, map)] :
              prov \in {Provenance(Len(shapefileConfigs))} } :
            map \in {BuildFlowDataMap(<<>>, csvEnv.rows)} } : TRUE

\* C6: when fetching the table throws or answers non-ok, the run rejects with
\* that error and neither the table parser nor any geometry fetch or decode
\* is performed.
C6_TableFetchFailureAborts ==
  csvEnv.kind \in {"throw", "notok"} =>
    /\ parseCalls = 0
    /\ readCalls = 0
    /\ \A i \in DOMAIN fetchLog : fetchLog[i] = csvFilePath
    /\ epc \in {"idle", "awaitCsv", "rejected"}
    /\ epc = "rejected" =>
         thrown = JSStr(IF csvEnv.kind = "throw" THEN csvEnv.msg
                        ELSE "Failed to fetch CSV: " \o csvEnv.msg)
    /\ epc = "awaitCsv" => ENABLED CsvFetched

C6_Witness ==
  /\ epc = "rejected"
  /\ csvEnv.kind = "notok"
  /\ Len(shapefileConfigs) = 2
  /\ fetchLog = <<csvFilePath>>

\* C7: once the table has been fetched, the run never rejects: it goes on
\* until it resolves with a list, whatever the parser reports and whichever
\* sources fail.
C7_OnlyTableFetchRejects ==
  csvEnv.kind = "ok" =>
    /\ epc # "rejected"
    /\ thrown = JSNull
    /\ epc # "resolved" => ENABLED NextEngine
    /\ epc = "resolved" => Len(srcMarks) = Len(shapefileConfigs)

C7_Witness ==
  /\ epc = "resolved"
  /\ csvEnv.kind = "ok"
  /\ csvEnv.errors > 0
  /\ Len(shapefileConfigs) = 2
  /\ \A i \in 1..2 : SourceFails(i)
  /\ allFeatures = <<>>

\* C8: a source whose fetch or decode fails adds nothing, and every other
\* source adds exactly what it adds when processed on its own, before or
\* after a failing one.
C8_SourceFailureIsolated ==
  /\ Len(srcMarks) <= Len(shapefileConfigs)
  /\ \A i \in 1..Len(srcMarks) :
       /\ srcMarks[i] <= Len(allFeatures)
       /\ i > 1 => srcMarks[i - 1] <= srcMarks[i]
       /\ Contribution(i) = IF SourceFails(i) THEN <<>> ELSE Alone(i)
  /\ epc = "resolved" =>
       /\ Len(srcMarks) = Len(shapefileConfigs)
       /\ Len(srcMarks) > 0 => srcMarks[Len(srcMarks)] = Len(allFeatures)

C8_Witness ==
  /\ epc = "resolved"
  /\ Len(shapefileConfigs) = 2
  /\ ~SourceFails(1)
  /\ SourceFails(2)
  /\ Contribution(1) # <<>>
  /\ allFeatures = Alone(1)

\* C9: the resolved list is the concatenation, in config order, of the
\* features each source produces in payload order; it is a function of the
\* inputs alone.
C9_SourceThenFeatureOrder ==
  epc = "resolved" => allFeatures = ExpectedOutput

C9_Witness ==
  /\ epc = "resolved"
  /\ Len(shapefileConfigs) = 2
  /\ Len(Kept(1)) = 2
  /\ Len(Kept(2)) = 1
  /\ Len(allFeatures) = 3
  /\ allFeatures[1] # allFeatures[2]
  /\ allFeatures[2] # allFeatures[3]

\* the category a source gives its features
CategoryOf(config) ==
  IF config.typeOverride # JSNull THEN config.typeOverride.v
  ELSE getFeatureType(config.path, EmptyObj)

HasId(id) == \E k \in DOMAIN allFeatures : allFeatures[k].id = id

\* C10: every output feature's id is its trimmed identifier, "_" and its
\* properties.type, the type being the source's override when given and the
\* classifier's result for the source path otherwise; an identifier emitted
\* from a canal source and from a river source is present under both ids.
C10_IdIsIdentifierAndType ==
  epc = "resolved" =>
    \A prov \in {Provenance(Len(shapefileConfigs))} :
       /\ Len(allFeatures) = Len(prov)
       /\ \A k \in DOMAIN allFeatures :
            \A ident \in {ResolveMapId(prov[k].feature.properties).v} :
               /\ allFeatures[k].properties.type
                    = CategoryOf(shapefileConfigs[prov[k].src])
               /\ ident = trim(ident)
               /\ allFeatures[k].id
                    = ident \o <<"_">> \o TypeChars(allFeatures[k].properties.type)
       /\ \A p, q \in DOMAIN prov :
            /\ CategoryOf(shapefileConfigs[prov[p].src]) = "canal"
            /\ CategoryOf(shapefileConfigs[prov[q].src]) = "river"
            /\ ResolveMapId(prov[p].feature.properties)
                 = ResolveMapId(prov[q].feature.properties)
            => /\ HasId(ResolveMapId(prov[p].feature.properties).v
                        \o <<"_">> \o W_canal)
               /\ HasId(ResolveMapId(prov[q].feature.properties).v
                        \o <<"_">> \o W_river)

C10_Witness ==
  /\ epc = "resolved"
  /\ shapefileConfigs = <<shapefilePathsConfig[1], shapefilePathsConfig[2]>>
  /\ HasId(<<"a","_","c","a","n","a","l">>)
  /\ HasId(<<"a","_","r","i","v","e","r">>)
  /\ \E k \in DOMAIN geoEnv[1].features :
       GetProp(geoEnv[1].features[k].properties, "MAPID") = JSStr(<<" ","a"," ">>)

\* C11: no two features of the resolved list have the same id.
C11_IdsAreUnique ==
  epc = "resolved" =>
    \A p, q \in DOMAIN allFeatures :
       allFeatures[p].id = allFeatures[q].id => p = q

\* C12: the geometry of every feature in the list is a LineString or a
\* Point.
C12_GeometryIsLineOrPoint ==
  \A k \in DOMAIN allFeatures :
     allFeatures[k].geometry.type \in {"LineString", "Point"}

C12_Witness ==
  /\ epc = "resolved"
  /\ \A prov \in {Provenance(Len(shapefileConfigs))} :
       /\ Len(allFeatures) = Len(prov)
       /\ \E k \in DOMAIN prov :
            /\ prov[k].feature.geometry.type = "MultiLineString"
            /\ allFeatures[k].geometry.type = "LineString"

\* C13: every LineString in the resolved list has at least two coordinate
\* pairs.
C13_LinesHaveTwoPoints ==
  epc = "resolved" =>
    \A k \in DOMAIN allFeatures :
       allFeatures[k].geometry.type = "LineString" =>
         Len(allFeatures[k].geometry.coordinates) >= 2

\* C14: a MultiLineString with at least one part becomes a LineString with
\* exactly the coordinates of its first part; a Point or a LineString is
\* passed through unchanged.
C14_FirstPartOnly ==
  epc = "resolved" =>
    \A prov \in {Provenance(Len(shapefileConfigs))} :
       /\ Len(allFeatures) = Len(prov)
       /\ \A k \in DOMAIN prov :
            \A raw \in {prov[k].feature.geometry} :
               /\ raw.type = "MultiLineString" =>
                    /\ allFeatures[k].geometry.type = "LineString"
                    /\ allFeatures[k].geometry.coordinates = raw.coordinates[1]
                    /\ DOMAIN allFeatures[k].geometry = {"type", "coordinates"}
               /\ raw.type \in {"Point", "LineString"} =>
                    allFeatures[k].geometry = raw

C14_Witness ==
  /\ epc = "resolved"
  /\ \A prov \in {Provenance(Len(shapefileConfigs))} :
       /\ \E k \in DOMAIN prov :
            /\ prov[k].feature.geometry.type = "MultiLineString"
            /\ Len(prov[k].feature.geometry.coordinates) = 2
            /\ prov[k].feature.geometry.coordinates[1]
                 # prov[k].feature.geometry.coordinates[2]
       /\ \E k \in DOMAIN prov : prov[k].feature.geometry.type = "Point"
       /\ \E k \in DOMAIN prov : prov[k].feature.geometry.type = "LineString"

\* a geometry for which no FlowFeature may be produced
GeometryRejected(geometry) ==
  \/ geometry.type \notin {"Point", "LineString", "MultiLineString"}
  \/ geometry.type = "MultiLineString" /\ geometry.coordinates = <<>>

Usable(f) ==
  /\ ~MapIdMissing(ResolveMapId(f.properties))
  /\ ~GeometryRejected(f.geometry)

\* C15: a feature without geometry, with a geometry of another kind or with
\* a MultiLineString of zero parts adds nothing to the list, and the other
\* features of its source are emitted, in order.
C15_BadGeometrySkipsOneFeature ==
  epc = "resolved" =>
    \A i \in DOMAIN shapefileConfigs :
       ~SourceFails(i) =>
         \A usable \in {SelectSeq(geoEnv[i].features, Usable)} :
            /\ Len(Contribution(i)) = Len(usable)
            /\ \A j \in DOMAIN usable :
                 Contribution(i)[j].id =
                   FeatureId(ResolveMapId(usable[j].properties).v,
                             CategoryOf(shapefileConfigs[i]))

C15_Witness ==
  /\ epc = "resolved"
  /\ Len(shapefileConfigs) = 2
  /\ geoEnv[1] = Decoded(ListB)
  /\ geoEnv[2] = Decoded(ListC)
  /\ \E j, k \in DOMAIN geoEnv[1].features :
       /\ j < k
       /\ geoEnv[1].features[j].geometry.type = "Polygon"
       /\ Usable(geoEnv[1].features[k])
  /\ \E j, k \in DOMAIN geoEnv[2].features :
       /\ j < k
       /\ geoEnv[2].features[j].geometry = Multi0
       /\ Usable(geoEnv[2].features[k])
  /\ \E j \in DOMAIN geoEnv[2].features :
       geoEnv[2].features[j].geometry = NoGeometry
  /\ Contribution(1) # <<>>
  /\ Contribution(2) # <<>>

\* C16: every feature of the resolved list has a flows mapping; a feature
\* whose identifier has no entry in the flow table has the empty mapping and
\* is in the list all the same.
C16_UnmatchedGetsEmptyFlows ==
  epc = "resolved" =>
    \A prov \in {Provenance(Len(shapefileConfigs))} :
       /\ Len(allFeatures) = Len(prov)
       /\ \A k \in DOMAIN prov :
            /\ "flows" \in DOMAIN allFeatures[k].properties
            /\ \A y \in DOMAIN allFeatures[k].properties.flows : IsYearKey(y)
            /\ ~MapHas(flowDataMap, ResolveMapId(prov[k].feature.properties).v)
                 => DOMAIN allFeatures[k].properties.flows = {}

C16_Witness ==
  /\ epc = "resolved"
  /\ csvEnv.kind = "ok"
  /\ csvEnv.rows = <<>>
  /\ flowDataMap = <<>>
  /\ Len(allFeatures) >= 2
  /\ \A k \in DOMAIN allFeatures : DOMAIN allFeatures[k].properties.flows = {}

\* C17: every value of every flows mapping of the resolved list is a finite
\* number, never NaN and never an infinity.
C17_FlowsAreFiniteNumbers ==
  epc = "resolved" =>
    \A k \in DOMAIN allFeatures :
       \A y \in DOMAIN allFeatures[k].properties.flows :
          allFeatures[k].properties.flows[y].k = "finite"

\* the table has been turned into flowDataMap
TableBuilt == epc \in {"awaitSource", "awaitRead", "resolved"}

\* the rows whose identifier cell is present and not empty
RowsWithId ==
  {i \in DOMAIN csvEnv.rows :
     K_MapID \in DOMAIN csvEnv.rows[i] /\ csvEnv.rows[i][K_MapID] # <<>>}

\* C18: a row whose identifier cell is empty or missing adds no entry and
\* every other row adds one: the keys of flowDataMap are exactly the trimmed
\* identifiers of the rows that have a non-empty identifier cell.
C18_RowsWithoutIdAddNothing ==
  TableBuilt =>
    /\ DOMAIN flowDataMap = {trim(csvEnv.rows[i][K_MapID]) : i \in RowsWithId}
    /\ RowsWithId = {} => flowDataMap = <<>>

C18_Witness ==
  /\ TableBuilt
  /\ Len(csvEnv.rows) = 5
  /\ 1 \notin RowsWithId
  /\ K_MapID \notin DOMAIN csvEnv.rows[1]
  /\ 3 \notin RowsWithId
  /\ csvEnv.rows[3][K_MapID] = <<>>
  /\ RowsWithId = {2, 4, 5}
  /\ DOMAIN flowDataMap = {<<"a">>, <<"c">>}

\* the last row whose trimmed identifier is ident, 0 when there is none
LastRowOf(ident) ==
  IF \E i \in RowsWithId : trim(csvEnv.rows[i][K_MapID]) = ident
  THEN CHOOSE i \in RowsWithId :
         /\ trim(csvEnv.rows[i][K_MapID]) = ident
         /\ \A j \in RowsWithId :
              trim(csvEnv.rows[j][K_MapID]) = ident => j <= i
  ELSE 0

\* the headers of a row that are made of four digits
YearHeaders(row) ==
  {h \in DOMAIN row : Len(h) = 4 /\ \A c \in 1..4 : h[c] \in
     {"0", "1", "2", "3", "4", "5", "6", "7", "8", "9"}}

\* C19: a feature carries the flows of the last row whose trimmed identifier
\* equals its own trimmed identifier, compared character by character, and
\* the keys of its flows are the four-digit headers of that row; it carries
\* no flows when there is no such row.
C19_FlowsOfLastMatchingRow ==
  epc = "resolved" =>
    \A prov \in {Provenance(Len(shapefileConfigs))} :
       /\ Len(allFeatures) = Len(prov)
       /\ \A k \in DOMAIN prov :
            \A r \in {LastRowOf(ResolveMapId(prov[k].feature.properties).v)} :
               IF r = 0
               THEN DOMAIN allFeatures[k].properties.flows = {}
               ELSE /\ DOMAIN allFeatures[k].properties.flows
                         = YearHeaders(csvEnv.rows[r])
                    /\ allFeatures[k].properties.flows = RowFlows(csvEnv.rows[r])

C19_Witness ==
  /\ epc = "resolved"
  /\ Len(csvEnv.rows) = 5
  /\ LastRowOf(<<"a">>) = 4
  /\ trim(csvEnv.rows[2][K_MapID]) = <<"a">>
  /\ H_19790 \in DOMAIN csvEnv.rows[4]
  /\ \A prov \in {Provenance(Len(shapefileConfigs))} :
       \E k \in DOMAIN prov :
          /\ GetProp(prov[k].feature.properties, "MAPID") = JSStr(<<" ","a"," ">>)
          /\ DOMAIN allFeatures[k].properties.flows = {H_1979}
          /\ allFeatures[k].properties.flows[H_1979] = Finite(FALSE, 7, 0)

\* the value an attribute bag holds under key, if it holds one that is not
\* empty ("" and 0 are empty, as are null and a key that is absent)
HoldsValue(properties, key) ==
  /\ properties.t = "object"
  /\ key \in DOMAIN properties.v
  /\ \/ properties.v[key].t = "string" /\ Len(properties.v[key].v) > 0
     \/ properties.v[key].t = "number" /\ properties.v[key].v > 0

AliasOrder == <<"MAPID", "MapID", "mapid", "SiteID", "SITEID">>

\* the text of the first alias that holds a value, trimmed; <<>> when no
\* alias holds one
IdentifierOf(f) ==
  IF \E a \in DOMAIN AliasOrder : HoldsValue(f.properties, AliasOrder[a])
  THEN LET a == CHOOSE x \in DOMAIN AliasOrder :
                  /\ HoldsValue(f.properties, AliasOrder[x])
                  /\ \A y \in 1..(x - 1) : ~HoldsValue(f.properties, AliasOrder[y])
           v == f.properties.v[AliasOrder[a]]
       IN trim(IF v.t = "number" THEN NatToChars(v.v) ELSE v.v)
  ELSE <<>>

Identified(f) == IdentifierOf(f) # <<>> /\ ~GeometryRejected(f.geometry)

\* C21: the identifier of a feature is the trimmed text of the first of
\* MAPID, MapID, mapid, SiteID, SITEID that holds a value; a feature that
\* gets no identifier adds nothing, and the features after it in the source
\* are emitted.
C21_FirstAliasTrimmed ==
  epc = "resolved" =>
    \A i \in DOMAIN shapefileConfigs :
       ~SourceFails(i) =>
         \A named \in {SelectSeq(geoEnv[i].features, Identified)} :
            /\ Len(Contribution(i)) = Len(named)
            /\ \A j \in DOMAIN named :
                 Contribution(i)[j].id =
                   IdentifierOf(named[j]) \o <<"_">>
                     \o TypeChars(Contribution(i)[j].properties.type)

C21_Witness ==
  /\ epc = "resolved"
  /\ Len(shapefileConfigs) = 2
  /\ geoEnv[1] = Decoded(ListB)
  /\ geoEnv[2] = Decoded(ListA)
  /\ IdentifierOf(geoEnv[1].features[1]) = <<>>
  /\ HoldsValue(geoEnv[1].features[3].properties, "MapID")
  /\ HoldsValue(geoEnv[1].features[3].properties, "SiteID")
  /\ IdentifierOf(geoEnv[1].features[3]) = <<"a">>
  /\ GetProp(geoEnv[2].features[1].properties, "MAPID") = JSStr(<<" ","a"," ">>)
  /\ IdentifierOf(geoEnv[2].features[1]) = <<"a">>
  /\ GetProp(geoEnv[2].features[2].properties, "MapID") = JSStr(<<>>)
  /\ IdentifierOf(geoEnv[2].features[2]) = <<"c">>
  /\ Len(Contribution(1)) = 1
  /\ Len(Contribution(2)) = 2

\* ------------------------------------------------------------------------
\* Properties of the hook module and the worker (SpecShim)
\* ------------------------------------------------------------------------
Settled(r) == requests[r].status \in {"resolved", "rejected"}
Issued(r) == requests[r].status # "none"
OutcomeStored == delivered # <<>>

C2_InFlightRequestsShareOutcome ==
  /\ (\E r \in DOMAIN requests : requests[r].inFlight) =>
        workersCreated = 1 /\ runsStarted <= 1
  /\ \A r1, r2 \in DOMAIN requests :
       /\ requests[r1].inFlight /\ Settled(r1)
       /\ requests[r2].inFlight /\ Settled(r2)
       => /\ requests[r1].status = requests[r2].status
          /\ requests[r1].value = requests[r2].value

C2_Witness ==
  /\ requests[1].inFlight /\ requests[1].status = "resolved"
  /\ requests[2].inFlight /\ requests[2].status = "resolved"
  /\ requests[1].value = JSArr(allFeatures)
  /\ allFeatures # <<>>
  /\ runsStarted = 1

\* C3: a request issued before the run has finished is settled only after the
\* worker's outcome has been stored, and when it resolves it resolves with
\* exactly the list the worker delivered, the run's complete list.
C3_NoPrematureResult ==
  \A r \in DOMAIN requests :
    requests[r].inFlight =>
      /\ Issued(r)
      /\ Settled(r) => OutcomeStored /\ ~isLoadingData
      /\ requests[r].status = "resolved" =>
           /\ delivered[1].type = "dataLoaded"
           /\ requests[r].value = delivered[1].payload
           /\ epc = "resolved"
           /\ requests[r].value = JSArr(allFeatures)

C3_Witness ==
  /\ requests[1].inFlight
  /\ requests[1].status = "resolved"
  /\ requests[1].value = JSArr(allFeatures)
  /\ Len(allFeatures) >= 2
  /\ requests[2].status = "pending"

\* the reason of the failure the worker reported
ReportedFailure ==
  /\ OutcomeStored
  /\ delivered[1].type \in {"dataError", "error"}
  /\ delivered[1].payload.t = "string"

\* C4: after the worker has reported a failure, the reason is cached and
\* stays cached, every request settled from then on is rejected with that
\* reason, and no further run is started.
C4_FailureIsCachedAndShared ==
  ReportedFailure =>
    /\ workerErrorCache = delivered[1].payload
    /\ workerDataCache = JSNull
    /\ runsStarted <= 1
    /\ workersCreated = 1
    /\ \A r \in DOMAIN requests :
         /\ requests[r].status # "resolved"
         /\ requests[r].status = "rejected" =>
              requests[r].value = delivered[1].payload

\* C5: when the run rejects with an error whose message is m, every request
\* that is settled is rejected with an error whose message is m.
C5_ReasonReachesConsumers ==
  epc = "rejected" =>
    \A r \in DOMAIN requests :
      /\ requests[r].status # "resolved"
      /\ requests[r].status = "rejected" => requests[r].value = thrown

\* the worker's messages on their way to the application or handled by it
WorkerMessages ==
  SelectSeq(delivered, LAMBDA e : e.kind = "message")
    \o SelectSeq(toMain, LAMBDA e : e.kind = "message")

\* C22: the worker answers the 'loadData' request with exactly one message,
\* posted when the run has settled: dataLoaded with the run's complete list
\* or dataError with the failure message; a message other than 'loadData'
\* starts no run and is answered by nothing; the application handles at most
\* one outcome.
C22_OneAnswerPerRequest ==
  /\ Len(WorkerMessages) <= runsStarted
  /\ runsStarted + Len(SelectSeq(toWorker, LAMBDA m : m = "loadData"))
       = loadDataPosted
  /\ Len(WorkerMessages) = 1 <=> workerState = "replied"
  /\ \A i \in DOMAIN WorkerMessages :
       /\ epc \in {"resolved", "rejected"}
       /\ epc = "resolved" =>
            /\ WorkerMessages[i].type = "dataLoaded"
            /\ WorkerMessages[i].payload = JSArr(ExpectedOutput)
       /\ epc = "rejected" =>
            /\ WorkerMessages[i].type = "dataError"
            /\ WorkerMessages[i].payload = thrown
  /\ Len(delivered) <= 1

\* a run that succeeded while two other messages were received and dropped;
\* the list has been handed over
C22_Witness ==
  /\ ignoredMessages = 2
  /\ runsStarted = 1
  /\ Len(delivered) = 1
  /\ delivered[1].type = "dataLoaded"
  /\ delivered[1].payload = JSArr(allFeatures)
  /\ Len(allFeatures) >= 2

\* a failed run answered by one dataError although another message arrived
C22_WitnessFailure ==
  /\ ignoredMessages >= 1
  /\ runsStarted = 1
  /\ WorkerMessages = <<Event("message", "dataError", thrown)>>

\* C23: once the hook module has stored the run's outcome, the two caches and
\* the in-flight flag keep their values in every later step, and the step
\* that handles the first outcome, message or error event, leaves the worker
\* terminated with nothing left to deliver.
C23_OutcomeIsFrozen ==
  [][ /\ OutcomeStored =>
           /\ workerDataCache' = workerDataCache
           /\ workerErrorCache' = workerErrorCache
           /\ isLoadingData' = isLoadingData
      /\ OutcomeStored' =>
           /\ terminated'
           /\ ~isLoadingData'
           /\ toMain' = <<>>
           /\ Len(delivered') = 1 ]_vars

\* the outcome was stored while a message waited at the worker, and a request
\* issued afterwards has been answered from the cache
C23_Witness ==
  /\ OutcomeStored
  /\ terminated
  /\ toWorker # <<>>
  /\ workerDataCache = JSArr(allFeatures)
  /\ ~requests[1].inFlight
  /\ requests[1].status = "resolved"

\* C24: a request that waits is eventually resolved or rejected, and where
\* Web Workers do not exist no request ever waits or resolves: it is rejected
\* when it is issued.
C24_EveryRequestSettles ==
  /\ \A r \in 1..MaxRequests :
       (requests[r].status = "pending") ~> Settled(r)
  /\ [](~workerDefined =>
          \A r \in 1..MaxRequests : requests[r].status \in {"none", "rejected"})

\* a request that polled during the run has been settled after the run ended
\* without a usable reason, another one is settled with the list
C24_Witness ==
  /\ requests[1].inFlight
  /\ requests[1].status = "rejected"
  /\ requests[1].value = JSStr(FailedToLoadMessage)
  /\ OutcomeStored

C24_WitnessNoWorkers ==
  /\ ~workerDefined
  /\ requests[1].status = "rejected"
  /\ requests[1].value = JSStr(NoWorkersMessage)

\* a cache that holds a value
IsSet(cache) == cache.t \notin {"null", "undefined"}

\* C30: the success cache and the error cache are never both set, and once
\* the in-flight flag has been raised and lowered again exactly one of them
\* is set.
C30_ExactlyOneCacheSet ==
  /\ ~(IsSet(workerDataCache) /\ IsSet(workerErrorCache))
  /\ (workersCreated = 1 /\ ~isLoadingData) =>
        (IsSet(workerDataCache) \/ IsSet(workerErrorCache))

\* ------------------------------------------------------------------------
\* Properties of the store and of URLStateSync (SpecUrl)
\* ------------------------------------------------------------------------
AvailableYears == { getAvailableYears[i] : i \in DOMAIN getAvailableYears }
FeatureIds == { LoadedFeatures.v[k].id : k \in DOMAIN LoadedFeatures.v }
HashPairs == { initialHash.pairs[i] : i \in DOMAIN initialHash.pairs }

NamesValidYear(p) ==
  p.key = K_year /\ p.value.t = "string" /\ p.value.v \in AvailableYears
NamesLoadedSection(p) ==
  p.key = K_section /\ p.value.t = "string" /\ p.value.v \in FeatureIds

\* the component has been mounted and the application has not called a
\* setter yet
InitialLoadDone == upc = "mounted" /\ storeCalls = 0

\* C25: mounted with a hash made of a valid year and/or the id of a feature
\* of the data, in either order, the store holds those values and
\* replaceState has not been called: the location still shows the hash the
\* page was opened with.
C25_InitialHashApplied ==
  ( /\ InitialLoadDone
    /\ HashPairs # {}
    /\ \A p \in HashPairs : NamesValidYear(p) \/ NamesLoadedSection(p) )
  => /\ \A p \in HashPairs :
          /\ p.key = K_year => selectedYear = p.value.v
          /\ p.key = K_section => selectedSectionId = p.value
     /\ replaceStateLog = <<>>
     /\ locationHash = HashText(initialHash)

\* year first, section second, both applied and rendered, the list loaded
C25_Witness ==
  /\ InitialLoadDone
  /\ initialHash.pairs = <<Pair(K_year, Y_2001), Pair(K_section, S_1)>>
  /\ flowFeatures = LoadedFeatures
  /\ selectedYear = Y_2001
  /\ selectedSectionId = JSStr(S_1)
  /\ rendered = StoreValues
  /\ ~hasAppliedInitialHash

\* section first, with an escaped id
C25_WitnessSectionFirst ==
  /\ InitialLoadDone
  /\ locationHash = HashSlash \o K_section
       \o <<"/","s","%","2","0","1","/">> \o K_year \o <<"/">> \o Y_2001
  /\ selectedSectionId = JSStr(S_sp)
  /\ selectedYear = Y_2001
  /\ rendered = StoreValues

\* '#/section/<encoded id>/year/<year>', the section part left out for null
CanonicalHash(year, sectionId) ==
  HashSlash
    \o (IF sectionId = JSNull THEN <<>>
        ELSE K_section \o <<"/">> \o encodeURIComponent(sectionId.v) \o <<"/">>)
    \o K_year \o <<"/">> \o year

\* a step in which the component renders a change the application made to
\* the store after the initial load
RenderAfterStoreChange == storeCalls >= 1 /\ rendered' # rendered

\* C26: after the initial load, whatever hash the page was opened with, when
\* the component has rendered a change of selectedYear or selectedSectionId
\* the location's hash is '#/section/<encoded id>/year/<year>' for the new
\* values, the section part left out when the id is null.
C26_StoreChangeRewritesHash ==
  [][ RenderAfterStoreChange =>
        locationHash' = CanonicalHash(selectedYear', selectedSectionId') ]_vars

\* C27: when the component has rendered a change of the store to
\* selectedYear = DEFAULT_YEAR and selectedSectionId = null, replaceState has
\* been called with '#' and the location's fragment is empty.
C27_DefaultStateGivesBareHash ==
  [][ ( /\ RenderAfterStoreChange
        /\ selectedYear' = DEFAULT_YEAR
        /\ selectedSectionId' = JSNull )
      => /\ locationHash' = <<>>
         /\ locationHash # <<>> =>
              replaceStateLog' = Append(replaceStateLog, HashMark) ]_vars

\* what the hash the page was opened with asks for: its valid year, else
\* the year the store has; its section when a loaded feature has that id
ExpectedYear ==
  IF \E p \in HashPairs : NamesValidYear(p)
  THEN (CHOOSE p \in HashPairs : NamesValidYear(p)).value.v
  ELSE DEFAULT_YEAR
ExpectedSection ==
  IF \E p \in HashPairs : NamesLoadedSection(p)
  THEN (CHOOSE p \in HashPairs : NamesLoadedSection(p)).value
  ELSE JSNull

\* C28: the mount leaves selectedYear unchanged unless the hash names a year
\* of getAvailableYears, and, the features being loaded, leaves
\* selectedSectionId null unless the hash names the id of one of them; keys
\* with an absent or empty value count for nothing and the valid part of
\* the hash is applied.
C28_InvalidPartsIgnored ==
  [][ (upc = "unmounted" /\ upc' = "mounted") =>
        /\ selectedYear' = ExpectedYear
        /\ flowFeatures = LoadedFeatures =>
             selectedSectionId' = ExpectedSection ]_vars

\* C29: whatever the setters are called with, selectedYear is one of
\* getAvailableYears(); a setSelectedYear call with another argument changes
\* neither field, and setSelectedSectionId does not change selectedYear.
C29_StoreKeepsValidYear ==
  [][ storeCalls' = storeCalls + 1 =>
        /\ selectedYear' \in AvailableYears
        /\ ( /\ lastCall'.fn = "setSelectedYear"
             /\ lastCall'.arg.v \notin AvailableYears )
           => /\ selectedYear' = selectedYear
              /\ selectedSectionId' = selectedSectionId
        /\ lastCall'.fn = "setSelectedSectionId" =>
             selectedYear' = selectedYear ]_vars

\* ------------------------------------------------------------------------
\* Properties of getFeatureType (SpecClassifier)
\* ------------------------------------------------------------------------
\* the keyword a piece of a label carries, whatever its case
KeywordOf(token) ==
  CASE token = T_Point -> "point"
    [] token = T_WEIR -> "weir"
    [] token = T_Canals -> "canal"
    [] token = T_RIVER -> "river"
    [] OTHER -> "none"

Mentions(tokens, keyword) ==
  \E i \in DOMAIN tokens : KeywordOf(tokens[i]) = keyword

\* the precedence: point or weir, then canal, then river, then canal
ExpectedCategory(tokens) ==
  IF Mentions(tokens, "point") \/ Mentions(tokens, "weir") THEN "weir"
  ELSE IF Mentions(tokens, "canal") THEN "canal"
  ELSE IF Mentions(tokens, "river") THEN "river"
  ELSE "canal"

\* C20: every call of getFeatureType returns a category, the same for the
\* same label and attributes, decided by the label alone, whatever its case:
\* weir when it contains point or weir, else canal when it contains canal,
\* else river when it contains river, else canal.
C20_ClassifierPrecedence ==
  \A i \in DOMAIN clsReturned :
     /\ clsReturned[i] \in {"river", "canal", "weir"}
     /\ clsReturned[i] = ExpectedCategory(clsTokens)
     /\ clsReturned[i] = clsReturned[1]

C20_Witness ==
  /\ Len(clsReturned) = 2
  /\ clsTokens = <<T_RIVER, T_Canals, T_Point>>
  /\ GetProp(clsProperties, "TYPE") = JSStr(<<"R","i","v","e","r">>)
  /\ clsReturned = <<"weir", "weir">>

\* a label with canal and river and neither point nor weir gives canal
C20_WitnessCanalOverRiver ==
  /\ Len(clsReturned) = 2
  /\ clsTokens = <<T_RIVER, T_data, T_Canals>>
  /\ clsReturned[1] = "canal"

====
